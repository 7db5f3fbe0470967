---------------------------- MODULE Campus_proofs ----------------------------
(***************************************************************************)
(* What the four parts of Campus keep, each whatever the others do.        *)
(***************************************************************************)
EXTENDS Campus, FiniteSetTheorems, WellFoundedInduction, TLAPS

\* Each part counts with an instance of the library of its own.
LEMMA Counting ==
    /\ \A S : map!Cardinality(S) = Cardinality(S)
    /\ \A S : limits!Cardinality(S) = Cardinality(S)
    /\ \A S : bounty!Cardinality(S) = Cardinality(S)
<1>1. \A S : map!Cardinality(S) = Cardinality(S)
  BY DEF Cardinality, map!Cardinality
<1>2. \A S : limits!Cardinality(S) = Cardinality(S)
  BY DEF Cardinality, limits!Cardinality
<1>3. \A S : bounty!Cardinality(S) = Cardinality(S)
  BY DEF Cardinality, bounty!Cardinality
<1> QED BY <1>1, <1>2, <1>3

-----------------------------------------------------------------------------
(* The crowd on a viewer's map                                             *)

\* What the tick computed adds up, for the people that were to be seen then.
CohortAddsUp ==
    /\ cohort.members \subseteq map!People /\ cohort.detail \subseteq cohort.members
    /\ \A c \in Cells : cohort.clusters[c] = map!InCell(cohort.members \ cohort.detail, c)
    /\ cohort # map!NoCohort /\ ~sampled => cohort.members = map!Members
MapTypes == viewer \in map!People /\ isLead \in BOOLEAN /\ cap \in Nat
MapInv == MapTypes /\ CohortAddsUp /\ EverybodyOnce

LEMMA CrowdIsFinite ==
  ASSUME NEW S \in SUBSET map!People
  PROVE  IsFiniteSet(S) /\ Cardinality(S) \in Nat
<1>1. IsFiniteSet(map!People)
  BY FS_Interval, CampusAssumption DEF map!People, CampusAssumption
<1> QED BY <1>1, FS_Subset, FS_CardinalityType

\* Counting a cell takes apart as the people do.
LEMMA CountsAdd ==
  ASSUME NEW S \in SUBSET map!People, NEW T \in SUBSET map!People, S \cap T = {}, NEW c
  PROVE  /\ map!InCell(S \cup T, c) = map!InCell(S, c) + map!InCell(T, c)
         /\ map!InCell(S, c) \in Nat /\ map!InCell(T, c) \in Nat
<1> DEFINE A == {p \in S : cell[p] = c}
           B == {p \in T : cell[p] = c}
<1>1. A \in SUBSET map!People /\ B \in SUBSET map!People /\ A \cap B = {}
  OBVIOUS
<1>2. {p \in S \cup T : cell[p] = c} = A \cup B
  OBVIOUS
<1> HIDE DEF A, B
<1>3. IsFiniteSet(A) /\ IsFiniteSet(B) /\ Cardinality(A) \in Nat /\ Cardinality(B) \in Nat
  BY <1>1, CrowdIsFinite
<1>4. Cardinality(A \cup B) = Cardinality(A) + Cardinality(B) - Cardinality(A \cap B)
  BY <1>3, FS_Union
<1>5. Cardinality(A \cap B) = 0
  BY <1>1, FS_EmptySet
<1>6. Cardinality(A \cup B) = Cardinality(A) + Cardinality(B)
  BY <1>3, <1>4, <1>5
<1>7. /\ map!InCell(S \cup T, c) = Cardinality(A \cup B)
      /\ map!InCell(S, c) = Cardinality(A) /\ map!InCell(T, c) = Cardinality(B)
  BY <1>2, Counting DEF map!InCell, A, B
<1> QED BY <1>3, <1>6, <1>7

LEMMA CountOne ==
  ASSUME NEW p \in map!People, NEW c
  PROVE  map!InCell({p}, c) = IF cell[p] = c THEN 1 ELSE 0
<1>1. CASE cell[p] = c
  <2>1. {q \in {p} : cell[q] = c} = {p}
    BY <1>1
  <2> QED BY <1>1, <2>1, Counting, FS_Singleton DEF map!InCell
<1>2. CASE cell[p] # c
  <2>1. {q \in {p} : cell[q] = c} = {}
    BY <1>2
  <2> QED BY <1>2, <2>1, Counting, FS_EmptySet DEF map!InCell
<1> QED BY <1>1, <1>2

\* Without the viewer.
LEMMA CountOthers ==
  ASSUME NEW S \in SUBSET map!People, NEW p \in map!People, NEW c
  PROVE  /\ map!InCell(S, c) = map!InCell(S \ {p}, c) + (IF p \in S /\ cell[p] = c THEN 1 ELSE 0)
         /\ map!InCell(S \ {p}, c) \in Nat
<1>1. CASE p \in S
  <2>1. (S \ {p}) \cup {p} = S /\ (S \ {p}) \cap {p} = {} /\ {p} \in SUBSET map!People
    BY <1>1
  <2>2. /\ map!InCell((S \ {p}) \cup {p}, c) = map!InCell(S \ {p}, c) + map!InCell({p}, c)
        /\ map!InCell(S \ {p}, c) \in Nat
    BY <2>1, CountsAdd
  <2> QED BY <1>1, <2>1, <2>2, CountOne
<1>2. CASE p \notin S
  <2>1. S \ {p} = S /\ S \cup {} = S /\ S \cap {} = {} /\ {} \in SUBSET map!People
    BY <1>2
  <2>2. map!InCell(S, c) \in Nat
    BY <2>1, CountsAdd
  <2> QED BY <1>2, <2>1, <2>2
<1> QED BY <1>1, <1>2

LEMMA MapInit == CampusInit => MapInv
<1> SUFFICES ASSUME CampusInit PROVE MapInv
  OBVIOUS
<1>1. MapTypes /\ cohort = map!NoCohort /\ screen = map!NoScreen
  BY CampusAssumption DEF CampusAssumption, CampusInit, map!Init, MapTypes
<1>2. \A c : map!InCell({}, c) = 0
  <2>1. \A c : {p \in {} : cell[p] = c} = {}
    OBVIOUS
  <2> QED BY <2>1, Counting, FS_EmptySet DEF map!InCell
<1>3. CohortAddsUp
  BY <1>1, <1>2 DEF CohortAddsUp, map!NoCohort
<1>4. EverybodyOnce
  BY <1>1 DEF EverybodyOnce, map!EverybodyOnce, map!NoScreen
<1> QED BY <1>1, <1>3, <1>4 DEF MapInv

\* The frame shows what the cohort holds.
LEMMA FrameShows ==
  ASSUME MapTypes, CohortAddsUp, map!Send
  PROVE  EverybodyOnce'
<1> DEFINE M == cohort.members
           D == cohort.detail
           others == D \ {viewer}
           rows == map!Nearest(others, cap)
           back == others \ rows
           unseen == M \ (rows \cup {viewer})
           less(c) == IF map!InOwnCount /\ c = cell[viewer] THEN 1 ELSE 0
<1>1. /\ screen'.sent /\ screen'.rows = rows
      /\ \A c \in Cells : screen'.counts[c] = cohort.clusters[c] + map!InCell(back, c) - less(c)
      /\ cohort' = cohort /\ sampled' = sampled /\ viewer' = viewer /\ cell' = cell
      /\ cohort # map!NoCohort
  BY DEF map!Send
<1>2. rows \subseteq others /\ viewer \notin rows /\ D \subseteq M /\ M \subseteq map!People
  BY DEF map!Nearest, CohortAddsUp
<1> HIDE DEF rows
<1>3. ASSUME NEW c \in Cells
      PROVE  \/ screen'.counts[c] = map!InCell(unseen, c)
             \/ sampled /\ c = cell[viewer] /\ screen'.counts[c] - map!InCell(unseen, c) \in {-1, 1}
  <2>1. screen'.counts[c] = map!InCell(M \ D, c) + map!InCell(back, c) - less(c)
    BY <1>1 DEF CohortAddsUp
  <2>2. /\ map!InCell((M \ D) \cup back, c) = map!InCell(M \ D, c) + map!InCell(back, c)
        /\ map!InCell((M \ D), c) \in Nat /\ map!InCell(back, c) \in Nat
    <3>1. M \ D \in SUBSET map!People /\ back \in SUBSET map!People /\ (M \ D) \cap back = {}
      BY <1>2
    <3> HIDE DEF back
    <3> QED BY <3>1, CountsAdd
  <2>3. viewer \in map!People /\ (M \ D) \cup back \in SUBSET map!People
    BY <1>2 DEF MapTypes
  <2>4. ((M \ D) \cup back) \ {viewer} = unseen
    BY <1>2
  <2> DEFINE own == IF viewer \in (M \ D) \cup back /\ cell[viewer] = c THEN 1 ELSE 0
  <2>5. map!InCell((M \ D) \cup back, c) = map!InCell(unseen, c) + own /\ map!InCell(unseen, c) \in Nat
    BY <2>3, <2>4, CountOthers
  <2>6. screen'.counts[c] = map!InCell(unseen, c) + own - less(c)
    BY <2>1, <2>2, <2>5
  <2>7. viewer \in (M \ D) \cup back <=> viewer \in M /\ viewer \notin D
    BY <1>2
  <2>8. CASE c # cell[viewer]
    BY <2>5, <2>6, <2>8
  <2>9. CASE c = cell[viewer] /\ viewer \in D
    BY <2>5, <2>6, <2>7, <2>9 DEF map!InOwnCount
  <2>10. CASE c = cell[viewer] /\ viewer \notin D
    <3>1. viewer \in M => cohort.clusters[c] > 0
      <4> SUFFICES ASSUME viewer \in M PROVE cohort.clusters[c] > 0
        OBVIOUS
      <4>1. /\ map!InCell(M \ D, c) = map!InCell((M \ D) \ {viewer}, c) + 1
            /\ map!InCell((M \ D) \ {viewer}, c) \in Nat
        <5>1. M \ D \in SUBSET map!People /\ viewer \in M \ D
          BY <1>2, <2>10
        <5> QED BY <2>3, <2>10, <5>1, CountOthers
      <4> QED BY <4>1 DEF CohortAddsUp
    <3>2. ~sampled => (viewer \in M <=> map!CountsSelf)
      BY <1>1, <2>3 DEF CohortAddsUp, map!Members, map!CountsSelf
    <3>3. own = IF viewer \in M THEN 1 ELSE 0
      BY <2>7, <2>10
    <3>4. less(c) = IF map!CountsSelf /\ cohort.clusters[c] > 0 THEN 1 ELSE 0
      BY <2>10 DEF map!InOwnCount
    <3>5. own = less(c) \/ (sampled /\ own - less(c) \in {-1, 1})
      BY <3>1, <3>2, <3>3, <3>4
    <3> QED BY <2>5, <2>6, <2>10, <3>3, <3>4, <3>5
  <2> QED BY <2>8, <2>9, <2>10
<1>4. \A S, c : map!InCell(S, c)' = map!InCell(S, c)
  BY <1>1 DEF map!InCell
<1>5. EverybodyOnce' <=>
        (screen'.sent =>
           LET left == cohort'.members \ (screen'.rows \cup {viewer'})
           IN  /\ viewer' \notin screen'.rows /\ screen'.rows \subseteq cohort'.members
               /\ \A c \in Cells :
                     \/ screen'.counts[c] = map!InCell(left, c)
                     \/ sampled' /\ c = cell'[viewer'] /\ screen'.counts[c] - map!InCell(left, c) \in {-1, 1})
  BY <1>1 DEF EverybodyOnce, map!EverybodyOnce, map!InCell
<1> QED BY <1>1, <1>2, <1>3, <1>5

LEMMA MapStep == MapInv /\ [CampusNext]_campusVars => MapInv'
<1> SUFFICES ASSUME MapInv, [CampusNext]_campusVars PROVE MapInv'
  OBVIOUS
<1>1. CASE map!Compute
  <2>1. MapTypes'
    BY <1>1 DEF map!Compute, MapInv, MapTypes, map!People
  <2>2. cohort' = [members |-> map!Members, detail |-> cohort'.detail, clusters |-> cohort'.clusters]
        /\ cohort'.detail \subseteq map!Members
        /\ \A c \in Cells : cohort'.clusters[c] = map!InCell(map!Members \ cohort'.detail, c)
    BY <1>1 DEF map!Compute, map!Nearest
  <2>7. cell' = cell /\ offDuty' = offDuty /\ isLead' = isLead /\ screen' = screen
    BY <1>1 DEF map!Compute
  <2>3. map!Members \subseteq map!People /\ map!Members' = map!Members /\ cohort'.members = map!Members
    BY <2>2, <2>7 DEF map!Members, map!People
  <2>4. \A S, c : map!InCell(S, c)' = map!InCell(S, c)
    BY <2>7 DEF map!InCell
  <2>5. CohortAddsUp'
    BY <2>2, <2>3, <2>4 DEF CohortAddsUp, map!People
  <2>6. EverybodyOnce'
    BY <1>1, <2>7 DEF map!Compute, EverybodyOnce, map!EverybodyOnce
  <2> QED BY <2>1, <2>5, <2>6 DEF MapInv
<1>2. CASE map!Send
  <2>1. MapTypes'
    BY <1>2 DEF map!Send, MapInv, MapTypes, map!People
  <2>2. CohortAddsUp'
    BY <1>2 DEF map!Send, MapInv, CohortAddsUp, map!People, map!InCell, map!Members, map!NoCohort
  <2>3. EverybodyOnce'
    BY <1>2, FrameShows DEF MapInv
  <2> QED BY <2>1, <2>2, <2>3 DEF MapInv
<1>3. ASSUME NEW p \in map!People, map!Sample(p) PROVE MapInv'
  <2>1. MapTypes'
    BY <1>3 DEF map!Sample, MapInv, MapTypes, map!People
  <2>2. CohortAddsUp'
    BY <1>3 DEF map!Sample, MapInv, CohortAddsUp, map!People, map!InCell
  <2>3. EverybodyOnce'
    BY <1>3 DEF map!Sample, EverybodyOnce, map!EverybodyOnce
  <2> QED BY <2>1, <2>2, <2>3 DEF MapInv
<1>4. CASE UNCHANGED mapVars
  <2>1. UNCHANGED <<cell, offDuty, viewer, isLead, cap, cohort, screen, sampled>>
    BY <1>4 DEF mapVars
  <2> QED BY <2>1 DEF MapInv, MapTypes, CohortAddsUp, EverybodyOnce, map!EverybodyOnce, map!People,
                      map!InCell, map!Members, map!NoCohort
<1>5. MapMoves \/ UNCHANGED mapVars
  BY DEF CampusNext, HubMoves, LimitsMove, BountyMoves, campusVars
<1> QED BY <1>1, <1>2, <1>3, <1>4, <1>5 DEF MapMoves, map!Next

\* Everybody a viewer may see is on its map once, as a row or in one count,
\* for any crowd, cap and viewer; a sample between the index and the frame
\* puts the viewer's own cell out by one and no other.
THEOREM NobodyTwice == CampusSpec => []EverybodyOnce
<1>1. CampusInit => MapInv
  BY MapInit
<1>2. MapInv /\ [CampusNext]_campusVars => MapInv'
  BY MapStep
<1>3. MapInv => EverybodyOnce
  BY DEF MapInv
<1> QED BY <1>1, <1>2, <1>3, PTL DEF CampusSpec

-----------------------------------------------------------------------------
(* Sums of what tickets promise.  The library's sum recurs over a chosen   *)
(* member; that their order does not matter is an induction over their     *)
(* number.                                                                 *)

\* A set of numbers with zero and the successors of its members has them all.
LEMMA Count ==
  ASSUME NEW T, 0 \in T, \A n \in Nat : n \in T => n + 1 \in T
  PROVE  Nat \subseteq T
<1> DEFINE U == Nat \ T
<1> SUFFICES ASSUME U # {} PROVE FALSE
  OBVIOUS
<1>1. PICK x \in U : \A y \in U : ~(<<y, x>> \in OpToRel(<, Nat))
  BY NatLessThanWellFounded, WFMin, U \subseteq Nat
<1>2. \A y \in U : ~(y < x)
  BY <1>1 DEF OpToRel
<1>3. x # 0 /\ x \in Nat /\ x - 1 \in Nat
  OBVIOUS
<1>4. x - 1 \in T
  BY <1>2, <1>3
<1> QED BY <1>3, <1>4

Promised(S) == bounty!MapThenSumSet(LAMBDA t : t.bounty, S)

\* What the library's sum unfolds to.
Unfolding(S, g) ==
  g = [s \in SUBSET S |->
         IF s = {} THEN 0 ELSE (CHOOSE x \in s : TRUE).bounty + g[s \ {CHOOSE x \in s : TRUE}]]

LEMMA PromisedUnfolds ==
  ASSUME NEW S, NEW h, Unfolding(S, h)
  PROVE  \E g : Unfolding(S, g) /\ Promised(S) = g[S]
BY DEF Promised, bounty!MapThenSumSet, bounty!MapThenFoldSet, Unfolding

\* h adds up the promises of the subsets of S, in whatever order.
AddsUp(h, S) ==
  /\ h \in [SUBSET S -> Int] /\ h[{}] = 0
  /\ \A s \in SUBSET S, x \in S : x \notin s => h[s \cup {x}] = x.bounty + h[s]

LEMMA AddsUpNext ==
  ASSUME NEW S, NEW y, y \notin S,
         \A x \in S \cup {y} : x.bounty \in Int, NEW h, AddsUp(h, S)
  PROVE  \E g : AddsUp(g, S \cup {y})
<1> DEFINE g == [s \in SUBSET (S \cup {y}) |-> IF y \in s THEN y.bounty + h[s \ {y}] ELSE h[s]]
<1>1. \A s \in SUBSET (S \cup {y}) : s \ {y} \in SUBSET S
  OBVIOUS
<1>2. g \in [SUBSET (S \cup {y}) -> Int] /\ g[{}] = 0
  BY <1>1 DEF AddsUp
<1>3. ASSUME NEW s \in SUBSET (S \cup {y}), NEW x \in S \cup {y}, x \notin s
      PROVE  g[s \cup {x}] = x.bounty + g[s]
  <2>1. s \cup {x} \in SUBSET (S \cup {y})
    OBVIOUS
  <2>2. CASE x = y
    <3>1. s \in SUBSET S /\ (s \cup {x}) \ {y} = s
      BY <1>3, <2>2
    <3> QED BY <2>1, <2>2, <3>1
  <2>3. CASE x # y /\ y \in s
    <3>1. /\ s \ {y} \in SUBSET S /\ x \in S /\ x \notin s \ {y}
          /\ (s \cup {x}) \ {y} = (s \ {y}) \cup {x}
      BY <1>3, <2>3
    <3>2. h[(s \ {y}) \cup {x}] = x.bounty + h[s \ {y}] /\ h[s \ {y}] \in Int
          /\ h[(s \ {y}) \cup {x}] \in Int
      BY <3>1, (s \ {y}) \cup {x} \in SUBSET S DEF AddsUp
    <3>3. g[s \cup {x}] = y.bounty + h[(s \ {y}) \cup {x}] /\ g[s] = y.bounty + h[s \ {y}]
      BY <2>1, <2>3, <3>1
    <3> QED BY <1>3, <3>2, <3>3, x.bounty \in Int, y.bounty \in Int
  <2>4. CASE x # y /\ y \notin s
    BY <1>3, <2>1, <2>4, s \in SUBSET S DEF AddsUp
  <2> QED BY <2>2, <2>3, <2>4
<1>4. AddsUp(g, S \cup {y})
  <2> HIDE DEF g
  <2> QED BY <1>2, <1>3 DEF AddsUp
<1> QED BY <1>4

LEMMA AddsUpExists ==
  ASSUME NEW S, IsFiniteSet(S), \A x \in S : x.bounty \in Int
  PROVE  \E h : AddsUp(h, S)
<1> DEFINE T == {n \in Nat : \A s \in SUBSET S : Cardinality(s) = n => \E h : AddsUp(h, s)}
<1>1. 0 \in T
  <2>1. AddsUp([s \in {{}} |-> 0], {})
    BY DEF AddsUp
  <2>2. \A s \in SUBSET S : Cardinality(s) = 0 => s = {}
    BY FS_Subset, FS_EmptySet
  <2> QED BY <2>1, <2>2
<1>2. ASSUME NEW n \in Nat, n \in T PROVE n + 1 \in T
  <2>1. ASSUME NEW s \in SUBSET S, Cardinality(s) = n + 1 PROVE \E h : AddsUp(h, s)
    <3>1. IsFiniteSet(s)
      BY FS_Subset
    <3>2. PICK y \in s : TRUE
      BY <2>1, <3>1, FS_EmptySet
    <3>3. Cardinality(s \ {y}) = Cardinality(s) - 1
      BY <3>1, <3>2, FS_RemoveElement
    <3>7. Cardinality(s \ {y}) = n
      BY <2>1, <3>3
    <3>4. PICK h : AddsUp(h, s \ {y})
      BY <1>2, <3>7
    <3>5. (s \ {y}) \cup {y} = s
      BY <3>2
    <3>6. \E g : AddsUp(g, (s \ {y}) \cup {y})
      <4>1. \A x \in (s \ {y}) \cup {y} : x.bounty \in Int
        BY <3>5
      <4>2. y \notin s \ {y}
        OBVIOUS
      <4> HIDE DEF T
      <4> QED BY <3>4, <4>1, <4>2, AddsUpNext
    <3> QED BY <3>5, <3>6
  <2> QED BY <2>1
<1>3. Nat \subseteq T
  <2> HIDE DEF T
  <2> QED BY <1>1, <1>2, Count
<1>4. Cardinality(S) \in Nat
  BY FS_CardinalityType
<1> QED BY <1>3, <1>4

\* The library's sum is the one function that adds up.
LEMMA PromisedAddsUp ==
  ASSUME NEW R, IsFiniteSet(R), NEW S \in SUBSET R, NEW h, AddsUp(h, R)
  PROVE  Promised(S) = h[S]
<1> DEFINE any(s) == CHOOSE x \in s : TRUE
           k == [s \in SUBSET S |-> h[s]]
<1>0. SUBSET S \subseteq SUBSET R
  OBVIOUS
<1>1. \A s \in SUBSET S : s # {} => any(s) \in s /\ h[s] = any(s).bounty + h[s \ {any(s)}]
  <2> TAKE s \in SUBSET S
  <2> SUFFICES ASSUME s # {} PROVE any(s) \in s /\ h[s] = any(s).bounty + h[s \ {any(s)}]
    OBVIOUS
  <2>1. any(s) \in s
    OBVIOUS
  <2> HIDE DEF any
  <2>2. s \ {any(s)} \in SUBSET R /\ any(s) \in R /\ (s \ {any(s)}) \cup {any(s)} = s
    BY <2>1
  <2>3. any(s) \notin s \ {any(s)}
    OBVIOUS
  <2>4. h[(s \ {any(s)}) \cup {any(s)}] = any(s).bounty + h[s \ {any(s)}]
    BY <2>2, <2>3 DEF AddsUp
  <2> QED BY <2>1, <2>2, <2>4
<1>2. Unfolding(S, k)
  <2>1. \A s \in SUBSET S : k[s] = IF s = {} THEN 0 ELSE any(s).bounty + k[s \ {any(s)}]
    BY <1>1 DEF AddsUp
  <2> QED BY <2>1 DEF Unfolding
<1>3. PICK g : Unfolding(S, g) /\ Promised(S) = g[S]
  BY <1>2, PromisedUnfolds
<1>4. \A s \in SUBSET S : g[s] = IF s = {} THEN 0 ELSE any(s).bounty + g[s \ {any(s)}]
  BY <1>3 DEF Unfolding
<1> HIDE DEF any
<1> DEFINE T == {n \in Nat : \A s \in SUBSET S : Cardinality(s) = n => g[s] = h[s]}
<1>5. 0 \in T
  <2>1. \A s \in SUBSET S : Cardinality(s) = 0 => s = {}
    BY FS_Subset, FS_EmptySet
  <2> QED BY <1>4, <2>1 DEF AddsUp
<1>6. ASSUME NEW n \in Nat, n \in T PROVE n + 1 \in T
  <2>1. ASSUME NEW s \in SUBSET S, Cardinality(s) = n + 1 PROVE g[s] = h[s]
    <3>1. IsFiniteSet(s)
      BY FS_Subset
    <3>2. s # {}
      BY <2>1, <3>1, FS_EmptySet
    <3>3. any(s) \in s /\ h[s] = any(s).bounty + h[s \ {any(s)}]
      BY <1>1, <3>2
    <3>4. \A x \in s : Cardinality(s \ {x}) = Cardinality(s) - 1
      BY <3>1, FS_RemoveElement
    <3>7. Cardinality(s \ {any(s)}) = n
      BY <2>1, <3>3, <3>4
    <3>5. g[s \ {any(s)}] = h[s \ {any(s)}]
      BY <1>6, <3>7
    <3>6. g[s] = any(s).bounty + g[s \ {any(s)}]
      BY <1>4, <3>2
    <3> QED BY <3>3, <3>5, <3>6
  <2> QED BY <2>1
<1>7. Nat \subseteq T
  <2> HIDE DEF T
  <2> QED BY <1>5, <1>6, Count
<1>8. IsFiniteSet(S) /\ Cardinality(S) \in Nat
  BY FS_Subset, FS_CardinalityType
<1> QED BY <1>3, <1>7, <1>8

\* One more term.
LEMMA PromisedAdd ==
  ASSUME NEW S, IsFiniteSet(S), NEW y, y \notin S, \A x \in S \cup {y} : x.bounty \in Int
  PROVE  Promised(S \cup {y}) = y.bounty + Promised(S) /\ Promised(S) \in Int
<1>1. IsFiniteSet(S \cup {y})
  BY FS_AddElement
<1>2. PICK h : AddsUp(h, S \cup {y})
  BY <1>1, AddsUpExists
<1>3. Promised(S \cup {y}) = h[S \cup {y}] /\ Promised(S) = h[S]
  BY <1>1, <1>2, PromisedAddsUp, S \in SUBSET (S \cup {y}), S \cup {y} \in SUBSET (S \cup {y})
<1> QED BY <1>2, <1>3 DEF AddsUp

\* No terms.
LEMMA PromisedNone == Promised({}) = 0
<1>1. AddsUp([s \in {{}} |-> 0], {})
  BY DEF AddsUp
<1> QED BY <1>1, PromisedAddsUp, FS_EmptySet

-----------------------------------------------------------------------------
(* The bounty budget                                                       *)

Rows == [exists : BOOLEAN, spent : Nat, rev : Nat]
Steps == {"idle", "begin", "open", "charge", "create", "commit",
          "created", "refused", "unknown", "contention"}
BountyTypes ==
    /\ ledger \in Rows /\ seen \in [Requests -> Rows]
    /\ step \in [Requests -> Steps]
    /\ txn \in [Requests -> {"none", "open", "aborted", "committed"}]
    /\ asked \in [Requests -> Bounties]
    /\ IsFiniteSet(tickets) /\ \A t \in tickets : t.by \in Requests /\ t.bounty \in Nat

Charged == {"create", "commit", "unknown"}

\* Who is about to commit has the row locked, as it read it, and affords it.
LockHolds ==
    /\ \A r \in Requests :
       /\ seen[r].rev <= ledger.rev
       /\ seen[r].rev = ledger.rev => seen[r] = ledger
       /\ lock = r => /\ txn[r] = "open" /\ seen[r].rev = ledger.rev
                     /\ step[r] \in Charged \cup {"charge"}
       /\ step[r] \in Charged /\ txn[r] = "open" => lock = r
       /\ step[r] \in Charged => seen[r].spent + asked[r] <= Budget
       /\ step[r] \in {"open", "charge", "create"} => txn[r] \in {"open", "aborted"}

\* A request has a ticket if its transaction landed, and only then.
LandedOnce ==
    /\ \A t, u \in tickets : t.by = u.by => t = u
    /\ \A t \in tickets : txn[t.by] = "committed"
    /\ \A r \in Requests :
       /\ txn[r] = "committed" => \E t \in tickets : t.by = r
       /\ txn[r] = "committed" => step[r] \in {"commit", "created", "unknown"}
       /\ step[r] = "created" => txn[r] = "committed"

Spending == ledger.spent = Promised(tickets) /\ ledger.spent <= Budget
BountyInv == BountyTypes /\ LockHolds /\ LandedOnce /\ Spending

LEMMA BountyConstants ==
    /\ "noOne" \notin Requests /\ Budget \in Nat /\ \A b \in Bounties : b \in Nat
BY CampusAssumption DEF CampusAssumption, bounty!NoOne

LEMMA BountyInit == CampusInit => BountyInv
<1> SUFFICES ASSUME bounty!Init PROVE BountyInv
  BY DEF CampusInit
<1> USE DEF bounty!Init, bounty!NoRow, bounty!NoOne
<1>1. [exists |-> FALSE, spent |-> 0, rev |-> 0] \in Rows
  BY DEF Rows
<1>2. BountyTypes
  BY <1>1, FS_EmptySet DEF BountyTypes, Steps
<1>3. LockHolds
  BY BountyConstants DEF LockHolds, Charged
<1>4. LandedOnce
  BY DEF LandedOnce
<1>5. Spending
  BY PromisedNone, BountyConstants DEF Spending
<1> QED BY <1>2, <1>3, <1>4, <1>5 DEF BountyInv

\* A step that leaves what was committed: a request moves, and its transaction

\* is as it was, opened, or given up.
LEMMA NothingLands ==
  ASSUME BountyInv, UNCHANGED <<ledger, tickets, asked>>, BountyTypes', LockHolds',
         NEW r \in Requests, txn[r] # "committed", NEW to, to # "committed",
         txn' = txn \/ txn' = [txn EXCEPT ![r] = to],
         NEW next, next # "created", step' = step \/ step' = [step EXCEPT ![r] = next]
  PROVE  BountyInv'
<1>1. ledger' = ledger /\ tickets' = tickets
  OBVIOUS
<1>2. Promised(tickets)' = Promised(tickets)
  BY <1>1
<1>3. Spending'
  BY <1>1, <1>2 DEF BountyInv, Spending
<1>4. \A q \in Requests : /\ txn'[q] = "committed" <=> txn[q] = "committed"
                          /\ txn[q] = "committed" => step'[q] = step[q]
                          /\ step'[q] = "created" => step[q] = "created"
  <2> TAKE q \in Requests
  <2>1. txn'[q] = "committed" <=> txn[q] = "committed"
    <3>1. CASE txn' = txn
      BY <3>1
    <3>2. CASE txn' = [txn EXCEPT ![r] = to] /\ q = r
      BY <3>2 DEF BountyInv, BountyTypes
    <3>3. CASE txn' = [txn EXCEPT ![r] = to] /\ q # r
      BY <3>3 DEF BountyInv, BountyTypes
    <3> QED BY <3>1, <3>2, <3>3
  <2>2. q # r => step'[q] = step[q]
    BY DEF BountyInv, BountyTypes
  <2>3. step'[r] = step[r] \/ step'[r] # "created"
    BY DEF BountyInv, BountyTypes
  <2> QED BY <2>1, <2>2, <2>3
<1>5. LandedOnce'
  BY <1>1, <1>4 DEF BountyInv, BountyTypes, LandedOnce
<1> QED BY <1>3, <1>5 DEF BountyInv

\* The body runs again or gives up: its transaction is aborted.
LEMMA RunsAgain ==
  ASSUME BountyInv, NEW r \in Requests, txn[r] # "committed", bounty!RunAgain(r),
         UNCHANGED <<ledger, tickets, asked, seen>>
  PROVE  BountyInv'
<1>1. PICK next \in {"begin", "contention"} : step' = [step EXCEPT ![r] = next]
  BY DEF bounty!RunAgain, bounty!Goto
<1>2. txn' = [txn EXCEPT ![r] = "none"] /\ lock' = (IF lock = r THEN "noOne" ELSE lock)
  BY DEF bounty!RunAgain, bounty!Unlocked, bounty!NoOne
<1>3. BountyTypes'
  BY <1>1, <1>2 DEF BountyInv, BountyTypes, Steps
<1>4. LockHolds'
  <2> SUFFICES ASSUME NEW q \in Requests
               PROVE  /\ seen[q].rev <= ledger.rev
                      /\ seen[q].rev = ledger.rev => seen[q] = ledger
                      /\ lock' = q => /\ txn'[q] = "open" /\ seen[q].rev = ledger.rev
                                     /\ step'[q] \in Charged \cup {"charge"}
                      /\ step'[q] \in Charged /\ txn'[q] = "open" => lock' = q
                      /\ step'[q] \in Charged => seen[q].spent + asked[q] <= Budget
                      /\ step'[q] \in {"open", "charge", "create"} => txn'[q] \in {"open", "aborted"}
    BY DEF LockHolds
  <2>1. CASE q = r
    <3>1. step'[q] \notin Charged \cup {"open", "charge", "create"} /\ lock' # q
      BY <1>1, <1>2, <2>1, BountyConstants DEF BountyInv, BountyTypes, Charged
    <3> QED BY <3>1 DEF BountyInv, LockHolds
  <2>2. CASE q # r
    <3>1. step'[q] = step[q] /\ txn'[q] = txn[q] /\ (lock' = q <=> lock = q)
      BY <1>1, <1>2, <2>2, BountyConstants DEF BountyInv, BountyTypes
    <3> QED BY <3>1 DEF BountyInv, LockHolds
  <2> QED BY <2>1, <2>2
<1>5. next # "created" /\ "none" # "committed"
  OBVIOUS
<1>6. UNCHANGED <<ledger, tickets, asked>>
  BY DEF bounty!RunAgain
<1> QED BY <1>1, <1>2, <1>3, <1>4, <1>5, <1>6, NothingLands

\* The commit lands: the ledger is what was read and the charge.
LEMMA Lands ==
  ASSUME BountyInv, NEW r \in Requests, step[r] = "commit", txn[r] = "open", bounty!Land(r),
         UNCHANGED <<asked, seen>>,
         NEW next \in {"commit", "created", "unknown"}, step' = [step EXCEPT ![r] = next]
  PROVE  BountyInv'
<1> DEFINE t == [by |-> r, body |-> bodies[r], bounty |-> asked[r]]
<1>1. /\ ledger' = [exists |-> TRUE, spent |-> seen[r].spent + asked[r], rev |-> ledger.rev + 1]
      /\ tickets' = tickets \cup {t} /\ txn' = [txn EXCEPT ![r] = "committed"] /\ lock' = "noOne"
  BY DEF bounty!Land, bounty!NoOne
<1>2. lock = r /\ seen[r] = ledger /\ seen[r].spent + asked[r] <= Budget
  BY DEF BountyInv, LockHolds, Charged
<1>3. asked[r] \in Nat /\ ledger.spent \in Nat /\ ledger.rev \in Nat
  BY BountyConstants DEF BountyInv, BountyTypes, Rows
<1>4. t.by = r /\ t.bounty = asked[r]
  OBVIOUS
<1>5. \A u \in tickets : u.by # r
  BY DEF BountyInv, LandedOnce
<1>6. t \notin tickets
  BY <1>4, <1>5
<1> HIDE DEF t
<1>7. ledger'.spent = ledger.spent + asked[r] /\ ledger'.rev = ledger.rev + 1 /\ ledger' \in Rows
  BY <1>1, <1>2, <1>3 DEF Rows
<1>8. BountyTypes'
  <2>1. IsFiniteSet(tickets')
    BY <1>1, FS_AddElement DEF BountyInv, BountyTypes
  <2>2. \A u \in tickets' : u.by \in Requests /\ u.bounty \in Nat
    BY <1>1, <1>3, <1>4 DEF BountyInv, BountyTypes
  <2>3. step' \in [Requests -> Steps] /\ txn' \in [Requests -> {"none", "open", "aborted", "committed"}]
    BY <1>1 DEF BountyInv, BountyTypes, Steps
  <2> QED BY <1>1, <1>7, <2>1, <2>2, <2>3 DEF BountyInv, BountyTypes
<1>9. LockHolds'
  <2> SUFFICES ASSUME NEW q \in Requests
               PROVE  /\ seen[q].rev <= ledger'.rev /\ seen[q].rev # ledger'.rev
                      /\ lock' # q
                      /\ step'[q] \in Charged => txn'[q] # "open" /\ seen[q].spent + asked[q] <= Budget
                      /\ step'[q] \in {"open", "charge", "create"} => txn'[q] \in {"open", "aborted"}
    BY <1>1 DEF LockHolds
  <2>1. seen[q].rev \in Nat /\ seen[q].rev <= ledger.rev
    BY DEF BountyInv, LockHolds, BountyTypes, Rows
  <2>2. CASE q = r
    BY <1>1, <1>2, <1>3, <1>7, <2>1, <2>2, BountyConstants DEF BountyInv, BountyTypes
  <2>3. CASE q # r
    <3>1. step'[q] = step[q] /\ txn'[q] = txn[q] /\ lock # q
      BY <1>1, <1>2, <2>3 DEF BountyInv, BountyTypes
    <3> QED BY <1>1, <1>3, <1>7, <2>1, <3>1, BountyConstants DEF BountyInv, LockHolds
  <2> QED BY <2>2, <2>3
<1>10. LandedOnce'
  <2>1. \A u, v \in tickets' : u.by = v.by => u = v
    BY <1>1, <1>4, <1>5 DEF BountyInv, LandedOnce
  <2>2. \A u \in tickets' : txn'[u.by] = "committed"
    BY <1>1, <1>4 DEF BountyInv, BountyTypes, LandedOnce
  <2>3. ASSUME NEW q \in Requests
        PROVE  /\ txn'[q] = "committed" => \E u \in tickets' : u.by = q
               /\ txn'[q] = "committed" => step'[q] \in {"commit", "created", "unknown"}
               /\ step'[q] = "created" => txn'[q] = "committed"
    BY <1>1, <1>4 DEF BountyInv, BountyTypes, LandedOnce
  <2> QED BY <2>1, <2>2, <2>3 DEF LandedOnce
<1>11. Spending'
  <2>1. \A u \in tickets \cup {t} : u.bounty \in Int
    BY <1>3, <1>4 DEF BountyInv, BountyTypes
  <2>2. Promised(tickets \cup {t}) = t.bounty + Promised(tickets) /\ Promised(tickets) \in Int
    BY <1>6, <2>1, PromisedAdd DEF BountyInv, BountyTypes
  <2>3. Promised(tickets)' = Promised(tickets \cup {t})
    BY <1>1
  <2> QED BY <1>2, <1>3, <1>4, <1>7, <2>2, <2>3 DEF BountyInv, Spending
<1> QED BY <1>8, <1>9, <1>10, <1>11 DEF BountyInv

\* A step of a request that has not landed, and leaves what is committed and

\* every transaction: it may lock the row, as it read it.
LEMMA Moves ==
  ASSUME BountyInv, UNCHANGED <<ledger, tickets, asked, seen, txn>>,
         NEW r \in Requests, NEW next \in Steps, step' = [step EXCEPT ![r] = next],
         txn[r] \in {"open", "aborted"}, next # "created",
         lock' = lock \/ (lock' = r /\ txn[r] = "open" /\ lock = "noOne" /\ seen[r].rev = ledger.rev),
         lock' = r => next \in Charged \cup {"charge"},
         next \in Charged => /\ txn[r] = "open" => lock' = r
                             /\ seen[r].spent + asked[r] <= Budget
  PROVE  BountyInv'
<1>0. ledger' = ledger /\ tickets' = tickets /\ asked' = asked /\ seen' = seen /\ txn' = txn
  OBVIOUS
<1>1. BountyTypes'
  BY <1>0 DEF BountyInv, BountyTypes
<1>2. LockHolds'
  <2> SUFFICES ASSUME NEW q \in Requests
               PROVE  /\ seen[q].rev <= ledger.rev
                      /\ seen[q].rev = ledger.rev => seen[q] = ledger
                      /\ lock' = q => /\ txn[q] = "open" /\ seen[q].rev = ledger.rev
                                     /\ step'[q] \in Charged \cup {"charge"}
                      /\ step'[q] \in Charged /\ txn[q] = "open" => lock' = q
                      /\ step'[q] \in Charged => seen[q].spent + asked[q] <= Budget
                      /\ step'[q] \in {"open", "charge", "create"} => txn[q] \in {"open", "aborted"}
    BY <1>0 DEF LockHolds
  <2>1. CASE q = r
    <3>1. step'[q] = next
      BY <2>1 DEF BountyInv, BountyTypes
    <3> QED BY <2>1, <3>1 DEF BountyInv, LockHolds
  <2>2. CASE q # r
    <3>1. step'[q] = step[q] /\ (lock' = q => lock = q) /\ (lock = q => lock' = q)
      BY <2>2, BountyConstants DEF BountyInv, BountyTypes
    <3> QED BY <3>1 DEF BountyInv, LockHolds
  <2> QED BY <2>1, <2>2
<1>3. txn[r] # "committed"
  OBVIOUS
<1>4. txn' = txn \/ txn' = [txn EXCEPT ![r] = "none"]
  BY <1>0
<1>5. UNCHANGED <<ledger, tickets, asked>>
  OBVIOUS
<1> QED BY <1>1, <1>2, <1>3, <1>4, <1>5, NothingLands

\* What no conflict means: the request may lock the row, and it is as read.
LEMMA NoConflict ==
  ASSUME BountyInv, NEW r \in Requests, ~bounty!Conflict(r)
  PROVE  txn[r] # "aborted" /\ lock \in {"noOne", r} /\ seen[r].rev = ledger.rev
BY DEF bounty!Conflict, bounty!NoOne

\* A commit is answered, or asked again, or given up as unknown.
LEMMA Answered ==
  ASSUME BountyInv, UNCHANGED <<ledger, tickets, asked, seen, txn, lock>>,
         NEW r \in Requests, step[r] = "commit",
         NEW next \in {"commit", "created", "unknown"}, step' = [step EXCEPT ![r] = next],
         next = "created" => txn[r] = "committed"
  PROVE  BountyInv'
<1>0. /\ ledger' = ledger /\ tickets' = tickets /\ asked' = asked /\ seen' = seen /\ txn' = txn
      /\ lock' = lock
  OBVIOUS
<1>1. BountyTypes'
  BY <1>0 DEF BountyInv, BountyTypes, Steps
<1>2. \A q \in Requests : step'[q] = IF q = r THEN next ELSE step[q]
  BY DEF BountyInv, BountyTypes
<1>3. LockHolds'
  BY <1>0, <1>2 DEF BountyInv, LockHolds, Charged
<1>4. LandedOnce'
  BY <1>0, <1>2 DEF BountyInv, LandedOnce
<1>5. Promised(tickets)' = Promised(tickets)
  BY <1>0
<1>6. Spending'
  BY <1>0, <1>5 DEF BountyInv, Spending
<1> QED BY <1>1, <1>3, <1>4, <1>6 DEF BountyInv

\* Every step of the ticket service keeps the account.
LEMMA BountyStep == BountyInv /\ bounty!Next => BountyInv'
<1> SUFFICES ASSUME BountyInv, NEW r \in Requests,
                    \/ bounty!Begin(r) \/ bounty!OpenLedger(r) \/ bounty!Charge(r) \/ bounty!Create(r)
                    \/ bounty!CommitAnswered(r) \/ bounty!CommitUnknown(r)
                    \/ bounty!CommitAborted(r) \/ bounty!DatabaseAborts(r)
             PROVE  BountyInv'
  BY DEF bounty!Next
<1>0. step[r] \notin {"commit", "created", "unknown"} => txn[r] # "committed"
  BY DEF BountyInv, LandedOnce
<1>1. CASE bounty!Begin(r)
  <2> USE <1>1 DEF bounty!Begin, bounty!Goto, bounty!dataVars
  <2>0. /\ ledger' = ledger /\ tickets' = tickets /\ asked' = asked /\ lock' = lock
        /\ seen' = [seen EXCEPT ![r] = ledger]
        /\ step' = [step EXCEPT ![r] = "open"] /\ txn' = [txn EXCEPT ![r] = "open"]
        /\ step[r] \in {"idle", "begin"}
    OBVIOUS
  <2> USE DEF BountyInv
  <2>1. BountyTypes'
    BY <2>0 DEF BountyTypes, Steps
  <2>2. LockHolds'
    <3>1. \A q \in Requests : /\ step'[q] = IF q = r THEN "open" ELSE step[q]
                              /\ txn'[q] = IF q = r THEN "open" ELSE txn[q]
                              /\ seen'[q] = IF q = r THEN ledger ELSE seen[q]
      BY <2>0 DEF BountyTypes
    <3>2. lock # r
      BY <2>0 DEF LockHolds, Charged
    <3>3. ledger.rev \in Nat
      BY DEF BountyTypes, Rows
    <3> QED BY <2>0, <3>1, <3>2, <3>3 DEF LockHolds, Charged
  <2>3. txn[r] # "committed"
    BY <1>0, <2>0
  <2>4. UNCHANGED <<ledger, tickets, asked>>
    BY <2>0
  <2>5. "open" # "committed" /\ "open" # "created"
    OBVIOUS
  <2> QED BY <2>0, <2>1, <2>2, <2>3, <2>4, <2>5, NothingLands
<1>2. CASE bounty!OpenLedger(r)
  <2> USE <1>2 DEF bounty!OpenLedger, bounty!Goto, bounty!dataVars
  <2>1. step[r] = "open" /\ UNCHANGED <<ledger, tickets, asked, seen>>
    OBVIOUS
  <2>2. txn[r] \in {"open", "aborted"} /\ lock # r
    BY <2>1 DEF BountyInv, LockHolds, Charged
  <2>6. "charge" \in Steps \ (Charged \cup {"created"})
    BY DEF Steps, Charged
  <2>3. CASE seen[r].exists
    <3>1. step' = [step EXCEPT ![r] = "charge"] /\ lock' = lock /\ txn' = txn
      BY <2>3
    <3>2. UNCHANGED <<ledger, tickets, asked, seen, txn>>
      BY <2>1, <3>1
    <3> QED BY <2>2, <2>6, <3>1, <3>2, Moves
  <2>4. CASE ~seen[r].exists /\ bounty!Conflict(r)
    <3>1. bounty!RunAgain(r)
      BY <2>4
    <3>2. txn[r] # "committed"
      BY <2>2
    <3> QED BY <2>1, <3>1, <3>2, RunsAgain
  <2>5. CASE ~seen[r].exists /\ ~bounty!Conflict(r)
    <3>1. step' = [step EXCEPT ![r] = "charge"] /\ lock' = r /\ txn' = txn
      BY <2>5
    <3>2. txn[r] = "open" /\ lock = "noOne" /\ seen[r].rev = ledger.rev
      BY <2>2, <2>5, NoConflict
    <3>3. UNCHANGED <<ledger, tickets, asked, seen, txn>>
      BY <2>1, <3>1
    <3> QED BY <2>2, <2>6, <3>1, <3>2, <3>3, Moves
  <2> QED BY <2>3, <2>4, <2>5
<1>3. CASE bounty!Charge(r)
  <2> USE <1>3 DEF bounty!Charge, bounty!Goto, bounty!dataVars
  <2>1. step[r] = "charge" /\ UNCHANGED <<ledger, tickets, asked, seen>>
    OBVIOUS
  <2>2. txn[r] \in {"open", "aborted"}
    BY <2>1 DEF BountyInv, LockHolds
  <2>3. CASE txn[r] # "aborted" /\ ~bounty!Affords(r)
    <3>1. /\ step' = [step EXCEPT ![r] = "refused"] /\ txn' = [txn EXCEPT ![r] = "none"]
          /\ lock' = IF lock = r THEN "noOne" ELSE lock
      BY <2>3 DEF bounty!Unlocked, bounty!NoOne
    <3>2. ledger' = ledger /\ tickets' = tickets /\ asked' = asked /\ seen' = seen
      BY <2>1
    <3>3. BountyTypes'
      BY <3>1, <3>2 DEF BountyInv, BountyTypes, Steps
    <3>4. \A q \in Requests : /\ step'[q] = IF q = r THEN "refused" ELSE step[q]
                              /\ txn'[q] = IF q = r THEN "none" ELSE txn[q]
                              /\ lock' = q <=> lock = q /\ q # r
      BY <3>1, BountyConstants DEF BountyInv, BountyTypes
    <3>5. LockHolds'
      BY <3>2, <3>4 DEF BountyInv, LockHolds, Charged
    <3>6. UNCHANGED <<ledger, tickets, asked>> /\ txn[r] # "committed"
      BY <2>1, <2>2
    <3>7. "none" # "committed" /\ "refused" # "created"
      OBVIOUS
    <3> QED BY <3>1, <3>3, <3>5, <3>6, <3>7, NothingLands
  <2>4. CASE ~(txn[r] # "aborted" /\ ~bounty!Affords(r)) /\ bounty!Conflict(r)
    <3>1. bounty!RunAgain(r)
      BY <2>4
    <3>2. txn[r] # "committed"
      BY <2>2
    <3> QED BY <2>1, <3>1, <3>2, RunsAgain
  <2>5. CASE ~(txn[r] # "aborted" /\ ~bounty!Affords(r)) /\ ~bounty!Conflict(r)
    <3>1. step' = [step EXCEPT ![r] = "create"] /\ lock' = r /\ txn' = txn
      BY <2>5
    <3>2. txn[r] = "open" /\ lock \in {"noOne", r} /\ seen[r].rev = ledger.rev
      BY <2>2, <2>5, NoConflict
    <3>3. UNCHANGED <<ledger, tickets, asked, seen, txn>>
      BY <2>1, <3>1
    <3>4. seen[r].spent <= Budget - asked[r]
      BY <2>5, <3>2 DEF bounty!Affords
    <3>5. seen[r].spent \in Nat /\ asked[r] \in Nat /\ Budget \in Nat
      BY BountyConstants DEF BountyInv, BountyTypes, Rows
    <3>6. seen[r].spent + asked[r] <= Budget
      BY <3>4, <3>5
    <3>7. "create" \in Steps \cap Charged /\ "create" # "created"
      BY DEF Steps, Charged
    <3> QED BY <2>2, <3>1, <3>2, <3>3, <3>6, <3>7, Moves
  <2> QED BY <2>3, <2>4, <2>5
<1>4. CASE bounty!Create(r)
  <2> USE <1>4 DEF bounty!Create, bounty!Goto, bounty!TicketInSession
  <2>1. step[r] = "create" /\ ledger' = ledger /\ tickets' = tickets /\ asked' = asked /\ seen' = seen
    OBVIOUS
  <2>2. txn[r] \in {"open", "aborted"}
    BY <2>1 DEF BountyInv, LockHolds
  <2>3. CASE txn[r] = "aborted"
    <3>1. bounty!RunAgain(r) /\ UNCHANGED <<ledger, tickets, asked, seen>>
      BY <2>1, <2>3
    <3> QED BY <2>3, <3>1, RunsAgain
  <2>4. CASE txn[r] = "open"
    <3>1. step' = [step EXCEPT ![r] = "commit"] /\ lock' = lock /\ txn' = txn
      BY <2>4
    <3>2. UNCHANGED <<ledger, tickets, asked, seen, txn>>
      BY <2>1, <3>1
    <3>3. lock = r /\ seen[r].spent + asked[r] <= Budget
      BY <2>1, <2>4 DEF BountyInv, LockHolds, Charged
    <3>4. "commit" \in Steps \cap Charged /\ "commit" # "created"
      BY DEF Steps, Charged
    <3> QED BY <2>2, <3>1, <3>2, <3>3, <3>4, Moves
  <2> QED BY <2>2, <2>3, <2>4
<1>5. CASE bounty!CommitAnswered(r)
  <2> USE <1>5 DEF bounty!CommitAnswered, bounty!Goto, bounty!dataVars
  <2>1. step[r] = "commit" /\ step' = [step EXCEPT ![r] = "created"] /\ UNCHANGED <<asked, seen>>
    OBVIOUS
  <2>2. CASE txn[r] = "open" /\ bounty!Land(r)
    BY <2>1, <2>2, Lands
  <2>3. CASE txn[r] = "committed" /\ UNCHANGED <<ledger, tickets, txn, lock>>
    <3>1. UNCHANGED <<ledger, tickets, asked, seen, txn, lock>>
      BY <2>1, <2>3
    <3> QED BY <2>1, <2>3, <3>1, Answered
  <2> QED BY <2>2, <2>3
<1>6. CASE bounty!CommitUnknown(r)
  <2> USE <1>6 DEF bounty!CommitUnknown, bounty!Goto, bounty!dataVars
  <2>1. step[r] = "commit" /\ UNCHANGED <<asked, seen>>
    OBVIOUS
  <2>2. PICK next \in {"commit", "unknown"} : step' = [step EXCEPT ![r] = next]
    BY DEF bounty!CommitAgain
  <2>3. next \in {"commit", "created", "unknown"} /\ next # "created"
    OBVIOUS
  <2>4. CASE txn[r] = "open" /\ bounty!Land(r)
    BY <2>1, <2>2, <2>3, <2>4, Lands
  <2>5. CASE UNCHANGED <<ledger, tickets, txn, lock>>
    <3>1. UNCHANGED <<ledger, tickets, asked, seen, txn, lock>>
      BY <2>1, <2>5
    <3> QED BY <2>1, <2>2, <2>3, <3>1, Answered
  <2> QED BY <2>4, <2>5
<1>7. CASE bounty!CommitAborted(r)
  <2>1. /\ txn[r] = "aborted" /\ bounty!RunAgain(r) /\ UNCHANGED <<ledger, tickets, asked, seen>>
    BY <1>7 DEF bounty!CommitAborted, bounty!dataVars
  <2>2. txn[r] # "committed"
    BY <2>1
  <2> QED BY <2>1, <2>2, RunsAgain
<1>8. CASE bounty!DatabaseAborts(r)
  <2>1. /\ txn[r] = "open" /\ txn' = [txn EXCEPT ![r] = "aborted"] /\ step' = step
        /\ lock' = IF lock = r THEN "noOne" ELSE lock
    BY <1>8 DEF bounty!DatabaseAborts, bounty!Unlocked, bounty!NoOne
  <2>2. ledger' = ledger /\ tickets' = tickets /\ asked' = asked /\ seen' = seen
    BY <1>8 DEF bounty!DatabaseAborts, bounty!dataVars
  <2>3. BountyTypes'
    BY <2>1, <2>2 DEF BountyInv, BountyTypes
  <2>4. \A q \in Requests : /\ txn'[q] = IF q = r THEN "aborted" ELSE txn[q]
                            /\ lock' = q <=> lock = q /\ q # r
    BY <2>1, BountyConstants DEF BountyInv, BountyTypes
  <2>5. LockHolds'
    BY <2>1, <2>2, <2>4 DEF BountyInv, LockHolds
  <2>6. UNCHANGED <<ledger, tickets, asked>> /\ txn[r] # "committed"
    BY <2>1, <2>2
  <2>7. "aborted" # "committed" /\ "idle" # "created"
    OBVIOUS
  <2> QED BY <2>1, <2>3, <2>5, <2>6, <2>7, NothingLands
<1> QED BY <1>1, <1>2, <1>3, <1>4, <1>5, <1>6, <1>7, <1>8

LEMMA BountyAlways == CampusSpec => []BountyInv
<1>1. BountyInv /\ UNCHANGED dayVars => BountyInv'
  <2> SUFFICES ASSUME BountyInv, UNCHANGED dayVars PROVE BountyInv'
    OBVIOUS
  <2>0. /\ ledger' = ledger /\ lock' = lock /\ tickets' = tickets /\ step' = step
        /\ asked' = asked /\ seen' = seen /\ txn' = txn
    BY DEF dayVars
  <2>1. Promised(tickets)' = Promised(tickets)
    BY <2>0
  <2>2. BountyTypes' /\ LockHolds' /\ LandedOnce'
    BY <2>0 DEF BountyInv, BountyTypes, LockHolds, LandedOnce
  <2> QED BY <2>0, <2>1, <2>2 DEF BountyInv, Spending
<1>2. [CampusNext]_campusVars => bounty!Next \/ UNCHANGED dayVars
  BY DEF CampusNext, HubMoves, LimitsMove, MapMoves, BountyMoves, campusVars
<1>3. BountyInv /\ [CampusNext]_campusVars => BountyInv'
  BY <1>1, <1>2, BountyStep
<1> QED BY BountyInit, <1>3, PTL DEF CampusSpec

\* What tickets promise is what the account was charged, and within its
\* budget, whatever is aborted, lost or sent again: src/src/services/sos.service.ts
\* createTicket and src/src/common/db/withTransactionRetry.ts withTransactionRetry.
THEOREM ChargedIsPromised == CampusSpec => []BudgetIsPromised
<1>1. BountyInv => BudgetIsPromised
  BY DEF BountyInv, Spending, BudgetIsPromised, bounty!BudgetIsPromised, Promised
<1> QED BY <1>1, BountyAlways, PTL

\* A request raises one ticket at most, one if it is told so, and none if it
\* is refused or told to try again: the same code.
THEOREM TicketOnce == CampusSpec => []OneTicketEach
<1>1. BountyInv => OneTicketEach
  <2> SUFFICES ASSUME BountyInv, NEW r \in Requests
               PROVE  /\ Cardinality(bounty!TicketsOf(r)) <= 1
                      /\ step[r] = "created" => bounty!TicketsOf(r) # {}
                      /\ step[r] \in {"refused", "contention"} => bounty!TicketsOf(r) = {}
    BY Counting DEF OneTicketEach, bounty!OneTicketEach
  <2> DEFINE S == bounty!TicketsOf(r)
  <2>1. \A t, u \in S : t = u
    BY DEF bounty!TicketsOf, BountyInv, LandedOnce
  <2>2. Cardinality(S) <= 1
    <3>1. CASE S = {}
      BY <3>1, FS_EmptySet
    <3>2. CASE S # {}
      <4>1. PICK t \in S : TRUE
        BY <3>2
      <4>2. S = {t}
        BY <2>1, <4>1
      <4>3. Cardinality({t}) = 1
        BY FS_Singleton
      <4> QED BY <4>2, <4>3
    <3> QED BY <3>1, <3>2
  <2>3. /\ step[r] = "created" => S # {}
        /\ step[r] \in {"refused", "contention"} => S = {}
    BY DEF bounty!TicketsOf, BountyInv, LandedOnce
  <2> QED BY <2>2, <2>3
<1> QED BY <1>1, BountyAlways, PTL

-----------------------------------------------------------------------------
(* The connection slots: what the table counts, when connection c asked    *)
(* with k[c].                                                              *)

Where(k, S, i) == {c \in S : k[c].ip = i}
Unnamed(k, S) == {c \in S : k[c].acc = Anonymous}
Of(k, S, a) == {c \in S : k[c].acc = a}
OfBy(k, S, a, tr) == {c \in S : k[c].acc = a /\ k[c].tr = tr}

Booked(k, S, at, atAnon, anon) ==
    /\ at \in [Ips -> Nat] /\ \A i \in Ips : at[i] = Cardinality(Where(k, S, i))
    /\ atAnon \in [Ips -> Nat] /\ \A i \in Ips : atAnon[i] = Cardinality(Where(k, Unnamed(k, S), i))
    /\ anon = Cardinality(Unnamed(k, S))

AccountsFit(k, S) == \A a \in Holders :
    /\ Cardinality(Of(k, S, a)) <= PerAccount + 1
    /\ \A tr \in {"sse", "ws"} : Cardinality(OfBy(k, S, a, tr)) <= PerAccount

Fits(k, S) ==
    /\ Cardinality(S) <= TotalSlots /\ Cardinality(Unnamed(k, S)) <= AnonSlots
    /\ \A i \in Ips : /\ Cardinality(Where(k, Unnamed(k, S), i)) <= AnonPerIp
                      /\ i \in Trusted \/ Cardinality(Where(k, S, i)) <= PerIp
    /\ AccountsFit(k, S)

Live == {c \in Conns : stage[c] \in {"open", "stillborn"}}
SlotTypes ==
    /\ IsFiniteSet(slots) /\ slots \subseteq Conns
    /\ \A c \in slots : ask[c] \in limits!Wishes
    /\ DOMAIN ask = Conns /\ DOMAIN stage = Conns
    /\ id \in [Conns -> Nat] /\ nextId \in Nat
SlotsTaken == Live \subseteq slots /\ \A c \in slots \ Live : stage[c] = "shaking"
SlotsInv ==
    /\ SlotTypes /\ SlotsTaken
    /\ Booked(ask, slots, byIp, byIpAnon, anonCount) /\ Fits(ask, slots)

LEMMA Ceilings ==
    /\ Anonymous \notin Holders /\ PerAccount \in Nat /\ PerAccount >= 1
    /\ TotalSlots \in Nat /\ AnonSlots \in Nat /\ AnonPerIp \in Nat /\ PerIp \in Nat
BY CampusAssumption DEF CampusAssumption

\* Whatever is counted of a finite set is finite, and less in a part of it.
LEMMA PartsCount ==
  ASSUME NEW S, IsFiniteSet(S), NEW T \in SUBSET S
  PROVE  IsFiniteSet(T) /\ Cardinality(T) \in Nat /\ Cardinality(S) \in Nat
         /\ Cardinality(T) <= Cardinality(S)
         /\ Cardinality(S \ T) = Cardinality(S) - Cardinality(T)
<1>1. S \cap T = T
  OBVIOUS
<1>2. Cardinality(S \ T) = Cardinality(S) - Cardinality(S \cap T)
  BY FS_Difference
<1> QED BY <1>1, <1>2, FS_Subset, FS_CardinalityType

\* Slots that are given back leave room.
LEMMA FewerFit ==
  ASSUME NEW k, NEW S, IsFiniteSet(S), Fits(k, S), NEW T \in SUBSET S
  PROVE  Fits(k, T)
<1>1. IsFiniteSet(T) /\ Cardinality(T) \in Nat /\ Cardinality(S) \in Nat
      /\ Cardinality(T) <= Cardinality(S)
  BY PartsCount
<1>2. ASSUME NEW X, NEW Y, X \in SUBSET S, Y \in SUBSET X
      PROVE  Cardinality(Y) <= Cardinality(X) /\ Cardinality(Y) \in Nat /\ Cardinality(X) \in Nat
  <2>1. IsFiniteSet(X)
    BY <1>2, FS_Subset
  <2> QED BY <1>2, <2>1, PartsCount
<1>3. /\ Cardinality(Unnamed(k, T)) <= Cardinality(Unnamed(k, S))
      /\ Cardinality(Unnamed(k, T)) \in Nat /\ Cardinality(Unnamed(k, S)) \in Nat
  <2>1. Unnamed(k, T) \in SUBSET Unnamed(k, S) /\ Unnamed(k, S) \in SUBSET S
    BY DEF Unnamed
  <2> QED BY <1>2, <2>1
<1>4. ASSUME NEW i \in Ips
      PROVE  /\ Cardinality(Where(k, Unnamed(k, T), i)) <= Cardinality(Where(k, Unnamed(k, S), i))
             /\ Cardinality(Where(k, T, i)) <= Cardinality(Where(k, S, i))
             /\ {Cardinality(Where(k, Unnamed(k, T), i)), Cardinality(Where(k, Unnamed(k, S), i)),
                 Cardinality(Where(k, T, i)), Cardinality(Where(k, S, i))} \subseteq Nat
  <2>1. /\ Where(k, Unnamed(k, T), i) \in SUBSET Where(k, Unnamed(k, S), i)
        /\ Where(k, Unnamed(k, S), i) \in SUBSET S
        /\ Where(k, T, i) \in SUBSET Where(k, S, i) /\ Where(k, S, i) \in SUBSET S
    BY DEF Unnamed, Where
  <2>2. /\ Cardinality(Where(k, Unnamed(k, T), i)) <= Cardinality(Where(k, Unnamed(k, S), i))
        /\ Cardinality(Where(k, Unnamed(k, T), i)) \in Nat
        /\ Cardinality(Where(k, Unnamed(k, S), i)) \in Nat
    BY <1>2, <2>1
  <2>3. /\ Cardinality(Where(k, T, i)) <= Cardinality(Where(k, S, i))
        /\ Cardinality(Where(k, T, i)) \in Nat /\ Cardinality(Where(k, S, i)) \in Nat
    BY <1>2, <2>1
  <2> QED BY <2>2, <2>3
<1>5. ASSUME NEW a \in Holders
      PROVE  /\ Cardinality(Of(k, T, a)) <= PerAccount + 1
             /\ \A tr \in {"sse", "ws"} : Cardinality(OfBy(k, T, a, tr)) <= PerAccount
  <2>1. Of(k, T, a) \in SUBSET Of(k, S, a) /\ Of(k, S, a) \in SUBSET S
    BY DEF Of
  <2>2. Cardinality(Of(k, T, a)) <= PerAccount + 1
    <3>1. /\ Cardinality(Of(k, T, a)) <= Cardinality(Of(k, S, a))
          /\ Cardinality(Of(k, T, a)) \in Nat /\ Cardinality(Of(k, S, a)) \in Nat
      BY <1>2, <2>1
    <3>2. Cardinality(Of(k, S, a)) <= PerAccount + 1
      BY DEF Fits, AccountsFit
    <3> QED BY <3>1, <3>2, Ceilings
  <2>3. ASSUME NEW tr \in {"sse", "ws"} PROVE Cardinality(OfBy(k, T, a, tr)) <= PerAccount
    <3>1. OfBy(k, T, a, tr) \in SUBSET OfBy(k, S, a, tr) /\ OfBy(k, S, a, tr) \in SUBSET S
      BY DEF OfBy
    <3>2. /\ Cardinality(OfBy(k, T, a, tr)) <= Cardinality(OfBy(k, S, a, tr))
          /\ Cardinality(OfBy(k, T, a, tr)) \in Nat /\ Cardinality(OfBy(k, S, a, tr)) \in Nat
      BY <1>2, <3>1
    <3>3. Cardinality(OfBy(k, S, a, tr)) <= PerAccount
      BY DEF Fits, AccountsFit
    <3> QED BY <3>2, <3>3, Ceilings
  <2> QED BY <2>2, <2>3
<1>6. AccountsFit(k, T)
  BY <1>5 DEF AccountsFit
<1>7. Cardinality(T) <= TotalSlots /\ Cardinality(Unnamed(k, T)) <= AnonSlots
  BY <1>1, <1>3, Ceilings DEF Fits
<1>8. ASSUME NEW i \in Ips
      PROVE  /\ Cardinality(Where(k, Unnamed(k, T), i)) <= AnonPerIp
             /\ i \in Trusted \/ Cardinality(Where(k, T, i)) <= PerIp
  BY <1>4, Ceilings DEF Fits
<1> QED BY <1>6, <1>7, <1>8 DEF Fits

\* What is counted does not hang on connections that hold no slot.
LEMMA SameAsks ==
  ASSUME NEW k, NEW l, NEW S, \A c \in S : k[c] = l[c]
  PROVE  /\ \A i : Where(k, S, i) = Where(l, S, i)
         /\ Unnamed(k, S) = Unnamed(l, S)
         /\ \A i : Where(k, Unnamed(k, S), i) = Where(l, Unnamed(l, S), i)
         /\ \A a : Of(k, S, a) = Of(l, S, a)
         /\ \A a, tr : OfBy(k, S, a, tr) = OfBy(l, S, a, tr)
BY DEF Where, Unnamed, Of, OfBy

LEMMA SameBooks ==
  ASSUME NEW k, NEW l, NEW S, \A c \in S : k[c] = l[c], NEW at, NEW atAnon, NEW anon
  PROVE  (Fits(k, S) => Fits(l, S)) /\ (Booked(k, S, at, atAnon, anon) => Booked(l, S, at, atAnon, anon))
<1>1. Fits(k, S) => Fits(l, S)
  BY SameAsks DEF Fits, AccountsFit
<1>2. Booked(k, S, at, atAnon, anon) => Booked(l, S, at, atAnon, anon)
  BY SameAsks DEF Booked
<1> QED BY <1>1, <1>2

\* release() gives back what was taken.
LEMMA ReleaseBooks ==
  ASSUME IsFiniteSet(slots), Booked(ask, slots, byIp, byIpAnon, anonCount), NEW C \in SUBSET slots
  PROVE  LET t == limits!Release(C)
         IN  t.slots = slots \ C /\ Booked(ask, slots \ C, t.byIp, t.byIpAnon, t.anonCount)
<1> DEFINE t == limits!Release(C)
           S == slots \ C
<1>1. ASSUME NEW X, NEW Y, X \in SUBSET slots, Y \in SUBSET X
      PROVE  /\ limits!Fewer(Cardinality(X), Cardinality(Y)) = Cardinality(X \ Y)
             /\ Cardinality(X \ Y) \in Nat
  <2>1. IsFiniteSet(X)
    BY <1>1, FS_Subset
  <2>2. /\ Cardinality(X) \in Nat /\ Cardinality(Y) \in Nat /\ Cardinality(Y) <= Cardinality(X)
        /\ Cardinality(X \ Y) = Cardinality(X) - Cardinality(Y)
    BY <1>1, <2>1, PartsCount
  <2> QED BY <2>2 DEF limits!Fewer
<1>2. /\ t.slots = S
      /\ t.byIp = [i \in Ips |-> limits!Fewer(byIp[i], limits!FreedBy(C, i, FALSE))]
      /\ t.byIpAnon = [i \in Ips |-> limits!Fewer(byIpAnon[i], limits!FreedBy(C, i, TRUE))]
      /\ t.anonCount = limits!Fewer(anonCount, Cardinality(Unnamed(ask, C)))
  BY Counting DEF limits!Release, Unnamed
<1>3. \A i \in Ips : /\ limits!FreedBy(C, i, FALSE) = Cardinality(Where(ask, C, i))
                     /\ limits!FreedBy(C, i, TRUE) = Cardinality(Where(ask, Unnamed(ask, C), i))
  <2> TAKE i \in Ips
  <2>1. {c \in C : ask[c].ip = i /\ (FALSE => ask[c].acc = Anonymous)} = Where(ask, C, i)
    BY DEF Where
  <2>2. {c \in C : ask[c].ip = i /\ (TRUE => ask[c].acc = Anonymous)} = Where(ask, Unnamed(ask, C), i)
    BY DEF Where, Unnamed
  <2> QED BY <2>1, <2>2, Counting DEF limits!FreedBy
<1>4. ASSUME NEW i \in Ips
      PROVE  /\ limits!Fewer(byIp[i], limits!FreedBy(C, i, FALSE)) = Cardinality(Where(ask, S, i))
             /\ limits!Fewer(byIpAnon[i], limits!FreedBy(C, i, TRUE)) =
                  Cardinality(Where(ask, Unnamed(ask, S), i))
             /\ Cardinality(Where(ask, S, i)) \in Nat
             /\ Cardinality(Where(ask, Unnamed(ask, S), i)) \in Nat
  <2>1. /\ byIp[i] = Cardinality(Where(ask, slots, i))
        /\ byIpAnon[i] = Cardinality(Where(ask, Unnamed(ask, slots), i))
    BY DEF Booked
  <2>2. /\ Where(ask, slots, i) \in SUBSET slots /\ Where(ask, C, i) \in SUBSET Where(ask, slots, i)
        /\ Where(ask, slots, i) \ Where(ask, C, i) = Where(ask, S, i)
    BY DEF Where
  <2>3. /\ Where(ask, Unnamed(ask, slots), i) \in SUBSET slots
        /\ Where(ask, Unnamed(ask, C), i) \in SUBSET Where(ask, Unnamed(ask, slots), i)
        /\ Where(ask, Unnamed(ask, slots), i) \ Where(ask, Unnamed(ask, C), i) =
             Where(ask, Unnamed(ask, S), i)
    BY DEF Where, Unnamed
  <2>4. limits!Fewer(Cardinality(Where(ask, slots, i)), Cardinality(Where(ask, C, i))) =
          Cardinality(Where(ask, S, i))
        /\ Cardinality(Where(ask, S, i)) \in Nat
    BY <1>1, <2>2
  <2>5. limits!Fewer(Cardinality(Where(ask, Unnamed(ask, slots), i)),
                     Cardinality(Where(ask, Unnamed(ask, C), i))) =
          Cardinality(Where(ask, Unnamed(ask, S), i))
        /\ Cardinality(Where(ask, Unnamed(ask, S), i)) \in Nat
    BY <1>1, <2>3
  <2> QED BY <1>3, <2>1, <2>4, <2>5
<1>5. limits!Fewer(anonCount, Cardinality(Unnamed(ask, C))) = Cardinality(Unnamed(ask, S))
  <2>1. /\ Unnamed(ask, slots) \in SUBSET slots /\ Unnamed(ask, C) \in SUBSET Unnamed(ask, slots)
        /\ Unnamed(ask, slots) \ Unnamed(ask, C) = Unnamed(ask, S)
    BY DEF Unnamed
  <2>2. anonCount = Cardinality(Unnamed(ask, slots))
    BY DEF Booked
  <2> QED BY <1>1, <2>1, <2>2
<1>6. t.anonCount = Cardinality(Unnamed(ask, S))
  BY <1>2, <1>5
<1> HIDE DEF t, S
<1>7. /\ t.byIp \in [Ips -> Nat] /\ t.byIpAnon \in [Ips -> Nat]
      /\ \A i \in Ips : /\ t.byIp[i] = Cardinality(Where(ask, S, i))
                         /\ t.byIpAnon[i] = Cardinality(Where(ask, Unnamed(ask, S), i))
  <2>1. t.byIp = [i \in Ips |-> t.byIp[i]] /\ t.byIpAnon = [i \in Ips |-> t.byIpAnon[i]]
    BY <1>2
  <2>2. \A i \in Ips : /\ t.byIp[i] = limits!Fewer(byIp[i], limits!FreedBy(C, i, FALSE))
                       /\ t.byIpAnon[i] = limits!Fewer(byIpAnon[i], limits!FreedBy(C, i, TRUE))
    BY <1>2
  <2>3. \A i \in Ips : /\ t.byIp[i] = Cardinality(Where(ask, S, i)) /\ t.byIp[i] \in Nat
                       /\ t.byIpAnon[i] = Cardinality(Where(ask, Unnamed(ask, S), i))
                       /\ t.byIpAnon[i] \in Nat
    BY <1>4, <2>2
  <2> QED BY <2>1, <2>3
<1>8. t.slots = S /\ Booked(ask, S, t.byIp, t.byIpAnon, t.anonCount)
  BY <1>2, <1>6, <1>7 DEF Booked
<1> QED BY <1>8 DEF t, S

\* T is S and one more.
Joined(S, c, T) == T = S \cup {c}

\* One more slot.
LEMMA OneMore ==
  ASSUME NEW S, IsFiniteSet(S), NEW c, c \notin S, NEW T, Joined(S, c, T)
  PROVE  IsFiniteSet(T) /\ Cardinality(T) = Cardinality(S) + 1
BY FS_AddElement DEF Joined

LEMMA OneMoreIn ==
  ASSUME NEW S, IsFiniteSet(S), NEW c, c \notin S, NEW X \in SUBSET S, NEW Y, Joined(X, c, Y)
  PROVE  Cardinality(Y) = Cardinality(X) + 1
<1>1. IsFiniteSet(X) /\ c \notin X
  BY FS_Subset
<1> QED BY <1>1, FS_AddElement DEF Joined

LEMMA OneMoreAt ==
  ASSUME NEW l, NEW S, IsFiniteSet(S), NEW c, c \notin S, NEW T, Joined(S, c, T), NEW i
  PROVE  Cardinality(Where(l, T, i)) =
           IF i = l[c].ip THEN Cardinality(Where(l, S, i)) + 1 ELSE Cardinality(Where(l, S, i))
<1>1. /\ Where(l, S, i) \in SUBSET S
      /\ i = l[c].ip => Joined(Where(l, S, i), c, Where(l, T, i))
      /\ i # l[c].ip => Where(l, T, i) = Where(l, S, i)
  BY DEF Where, Joined
<1> QED BY <1>1, OneMoreIn

LEMMA OneMoreUnnamed ==
  ASSUME NEW l, NEW S, IsFiniteSet(S), NEW c, c \notin S, NEW T, Joined(S, c, T)
  PROVE  /\ Unnamed(l, S) \in SUBSET S /\ IsFiniteSet(Unnamed(l, S)) /\ c \notin Unnamed(l, S)
         /\ l[c].acc = Anonymous =>
               /\ Joined(Unnamed(l, S), c, Unnamed(l, T))
               /\ Cardinality(Unnamed(l, T)) = Cardinality(Unnamed(l, S)) + 1
         /\ l[c].acc # Anonymous => Unnamed(l, T) = Unnamed(l, S)
<1>1. /\ Unnamed(l, S) \in SUBSET S
      /\ l[c].acc = Anonymous => Joined(Unnamed(l, S), c, Unnamed(l, T))
      /\ l[c].acc # Anonymous => Unnamed(l, T) = Unnamed(l, S)
  BY DEF Unnamed, Joined
<1> QED BY <1>1, OneMoreIn, FS_Subset

LEMMA OneMoreOf ==
  ASSUME NEW l, NEW S, IsFiniteSet(S), NEW c, c \notin S, NEW T, Joined(S, c, T), NEW b
  PROVE  /\ l[c].acc = b => Cardinality(Of(l, T, b)) = Cardinality(Of(l, S, b)) + 1
         /\ l[c].acc # b => Of(l, T, b) = Of(l, S, b)
<1>1. /\ Of(l, S, b) \in SUBSET S
      /\ l[c].acc = b => Joined(Of(l, S, b), c, Of(l, T, b))
      /\ l[c].acc # b => Of(l, T, b) = Of(l, S, b)
  BY DEF Of, Joined
<1> QED BY <1>1, OneMoreIn

LEMMA OneMoreOfBy ==
  ASSUME NEW l, NEW S, IsFiniteSet(S), NEW c, c \notin S, NEW T, Joined(S, c, T), NEW b, NEW tr
  PROVE  /\ l[c].acc = b /\ l[c].tr = tr =>
              Cardinality(OfBy(l, T, b, tr)) = Cardinality(OfBy(l, S, b, tr)) + 1
         /\ l[c].acc # b \/ l[c].tr # tr => OfBy(l, T, b, tr) = OfBy(l, S, b, tr)
<1>1. /\ OfBy(l, S, b, tr) \in SUBSET S
      /\ l[c].acc = b /\ l[c].tr = tr => Joined(OfBy(l, S, b, tr), c, OfBy(l, T, b, tr))
      /\ l[c].acc # b \/ l[c].tr # tr => OfBy(l, T, b, tr) = OfBy(l, S, b, tr)
  BY DEF OfBy, Joined
<1> QED BY <1>1, OneMoreIn

Higher(f, x, g) == g = [f EXCEPT ![x] = f[x] + 1]
LEMMA OneHigher ==
  ASSUME NEW f \in [Ips -> Nat], NEW x, NEW g, Higher(f, x, g)
  PROVE  g \in [Ips -> Nat] /\ \A i \in Ips : g[i] = IF i = x THEN f[i] + 1 ELSE f[i]
<1> USE DEF Higher
<1>1. CASE x \in Ips
  BY <1>1
<1>2. CASE x \notin Ips
  <2>1. g = f
    BY <1>2
  <2> QED BY <1>2, <2>1
<1> QED BY <1>1, <1>2

LEMMA TakenBooks ==
  ASSUME NEW l, NEW t, IsFiniteSet(t.slots), NEW c, c \notin t.slots, NEW a, l[c] = a,
         Booked(l, t.slots, t.byIp, t.byIpAnon, t.anonCount)
  PROVE  LET u == limits!Taken(t, c, a)
         IN  u.slots = t.slots \cup {c} /\ Booked(l, u.slots, u.byIp, u.byIpAnon, u.anonCount)
<1> DEFINE u == limits!Taken(t, c, a)
           S == t.slots
<1>1. /\ u.slots = S \cup {c}
      /\ u.byIp = [t.byIp EXCEPT ![a.ip] = t.byIp[a.ip] + 1]
      /\ u.byIpAnon = IF a.acc = Anonymous THEN [t.byIpAnon EXCEPT ![a.ip] = t.byIpAnon[a.ip] + 1]
                      ELSE t.byIpAnon
      /\ u.anonCount = IF a.acc = Anonymous THEN t.anonCount + 1 ELSE t.anonCount
  BY DEF limits!Taken
<1>10. IsFiniteSet(S) /\ c \notin S /\ Joined(S, c, u.slots)
  BY <1>1 DEF Joined
<1> HIDE DEF u, S
<1>5. /\ t.byIp \in [Ips -> Nat] /\ \A i \in Ips : t.byIp[i] = Cardinality(Where(l, S, i))
      /\ t.byIpAnon \in [Ips -> Nat]
      /\ \A i \in Ips : t.byIpAnon[i] = Cardinality(Where(l, Unnamed(l, S), i))
      /\ t.anonCount = Cardinality(Unnamed(l, S))
  BY DEF Booked, S
<1>6. u.byIp \in [Ips -> Nat] /\ \A i \in Ips : u.byIp[i] = Cardinality(Where(l, u.slots, i))
  <2>1. \A i \in Ips : Cardinality(Where(l, u.slots, i)) =
                          IF i = a.ip THEN Cardinality(Where(l, S, i)) + 1
                          ELSE Cardinality(Where(l, S, i))
    BY <1>10, OneMoreAt
  <2>2. u.byIp \in [Ips -> Nat]
        /\ \A i \in Ips : u.byIp[i] = IF i = a.ip THEN t.byIp[i] + 1 ELSE t.byIp[i]
    <3>1. Higher(t.byIp, a.ip, u.byIp)
      BY <1>1 DEF Higher
    <3> QED BY <1>5, <3>1, OneHigher
  <2> QED BY <1>5, <2>1, <2>2
<1>7. CASE a.acc = Anonymous
  <2>1. /\ Cardinality(Unnamed(l, u.slots)) = Cardinality(Unnamed(l, S)) + 1
        /\ \A i \in Ips : Cardinality(Where(l, Unnamed(l, u.slots), i)) =
                              IF i = a.ip THEN Cardinality(Where(l, Unnamed(l, S), i)) + 1
                              ELSE Cardinality(Where(l, Unnamed(l, S), i))
    <3>1. /\ Joined(Unnamed(l, S), c, Unnamed(l, u.slots))
          /\ Cardinality(Unnamed(l, u.slots)) = Cardinality(Unnamed(l, S)) + 1
          /\ IsFiniteSet(Unnamed(l, S)) /\ c \notin Unnamed(l, S)
      BY <1>7, <1>10, OneMoreUnnamed
    <3> QED BY <3>1, OneMoreAt
  <2>4. u.byIpAnon \in [Ips -> Nat]
        /\ \A i \in Ips : u.byIpAnon[i] = IF i = a.ip THEN t.byIpAnon[i] + 1 ELSE t.byIpAnon[i]
    <3>1. Higher(t.byIpAnon, a.ip, u.byIpAnon)
      BY <1>1, <1>7 DEF Higher
    <3> QED BY <1>5, <3>1, OneHigher
  <2>2. \A i \in Ips : u.byIpAnon[i] = Cardinality(Where(l, Unnamed(l, u.slots), i))
    BY <1>5, <2>1, <2>4
  <2>3. u.anonCount = Cardinality(Unnamed(l, u.slots))
    BY <1>1, <1>5, <1>7, <2>1
  <2>5. Booked(l, u.slots, u.byIp, u.byIpAnon, u.anonCount)
    BY <1>6, <2>2, <2>3, <2>4 DEF Booked
  <2> QED BY <1>1, <2>5 DEF u, S
<1>8. CASE a.acc # Anonymous
  <2>1. Unnamed(l, u.slots) = Unnamed(l, S)
    BY <1>8, <1>10, OneMoreUnnamed
  <2>2. u.byIpAnon = t.byIpAnon /\ u.anonCount = t.anonCount
    BY <1>1, <1>8
  <2>3. Booked(l, u.slots, u.byIp, u.byIpAnon, u.anonCount)
    BY <1>5, <1>6, <2>1, <2>2 DEF Booked
  <2> QED BY <1>1, <2>3 DEF u, S
<1> QED BY <1>7, <1>8

\* The oldest of some slots is one of them.
LEMMA OldestIs ==
  ASSUME NEW S, S # {}, \A c \in S : id[c] \in Nat
  PROVE  limits!Oldest(S) \in S
<1> DEFINE U == {id[c] : c \in S}
<1>1. U # {} /\ U \subseteq Nat
  OBVIOUS
<1>2. PICK x \in U : \A y \in U : ~(<<y, x>> \in OpToRel(<, Nat))
  BY <1>1, NatLessThanWellFounded, WFMin
<1> HIDE DEF U
<1>6. x \in Nat /\ \A y \in U : y \in Nat /\ ~(y < x)
  BY <1>1, <1>2 DEF OpToRel
<1>3. \A y \in U : x <= y
  BY <1>6
<1> USE DEF U
<1>4. PICK c \in S : x = id[c]
  BY <1>2
<1>5. \E d \in S : \A e \in S : id[d] <= id[e]
  BY <1>3, <1>4
<1> QED BY <1>5 DEF limits!Oldest

\* Whom an admission replaces: nobody, or a slot of the account and transport.
LEMMA WhoIsEvicted ==
  ASSUME SlotTypes, NEW a
  PROVE  LET E == limits!Evicted(a)
         IN  /\ E \subseteq slots /\ \A c \in E : ask[c].acc = a.acc /\ ask[c].tr = a.tr
             /\ a.acc = Anonymous => E = {}
             /\ \/ E = {} /\ \/ a.acc = Anonymous
                             \/ Cardinality(Of(ask, slots, a.acc)) < PerAccount
                             \/ OfBy(ask, slots, a.acc, a.tr) = {}
                \/ \E c \in OfBy(ask, slots, a.acc, a.tr) : E = {c}
<1> DEFINE E == limits!Evicted(a)
           R == OfBy(ask, slots, a.acc, a.tr)
<1>1. limits!OfAccount(a) = Of(ask, slots, a.acc) /\ limits!Replaceable(a) = R
  BY DEF limits!OfAccount, limits!Replaceable, Of, OfBy
<1>2. E = IF a.acc # Anonymous /\ Cardinality(Of(ask, slots, a.acc)) >= PerAccount /\ R # {}
          THEN {limits!Oldest(R)} ELSE {}
  BY <1>1, Counting DEF limits!Evicted
<1>3. R # {} => limits!Oldest(R) \in R
  BY OldestIs DEF SlotTypes, OfBy
<1>4. Of(ask, slots, a.acc) \in SUBSET slots /\ R \in SUBSET slots
  BY DEF Of, OfBy
<1>5. Cardinality(Of(ask, slots, a.acc)) \in Nat
  BY <1>4, PartsCount DEF SlotTypes
<1>6. \A c \in R : c \in slots /\ ask[c].acc = a.acc /\ ask[c].tr = a.tr
  BY DEF OfBy
<1> HIDE DEF R, E
<1>7. CASE a.acc # Anonymous /\ Cardinality(Of(ask, slots, a.acc)) >= PerAccount /\ R # {}
  <2>1. E = {limits!Oldest(R)} /\ limits!Oldest(R) \in R
    BY <1>2, <1>3, <1>7
  <2> QED BY <1>6, <1>7, <2>1 DEF R, E
<1>8. CASE ~(a.acc # Anonymous /\ Cardinality(Of(ask, slots, a.acc)) >= PerAccount /\ R # {})
  <2>1. E = {}
    BY <1>2, <1>8
  <2>2. a.acc = Anonymous \/ Cardinality(Of(ask, slots, a.acc)) < PerAccount \/ R = {}
    BY <1>5, <1>8, Ceilings
  <2> QED BY <2>1, <2>2 DEF R, E
<1> QED BY <1>7, <1>8

\* An admitted connection leaves every ceiling unpassed.
LEMMA TakenFits ==
  ASSUME SlotsInv, NEW a \in limits!Wishes, limits!Admits(a), NEW c, c \notin slots,
         NEW l, l[c] = a, \A d \in slots : l[d] = ask[d],
         NEW T, Joined(slots \ limits!Evicted(a), c, T)
  PROVE  Fits(l, T)
<1> DEFINE E == limits!Evicted(a)
           R == slots \ E
<1>1. E \subseteq slots /\ (a.acc = Anonymous => E = {})
  BY WhoIsEvicted DEF SlotsInv
<1>2. IsFiniteSet(slots) /\ Fits(ask, slots) /\ Booked(ask, slots, byIp, byIpAnon, anonCount)
  BY DEF SlotsInv, SlotTypes
<1>3. R \in SUBSET slots /\ IsFiniteSet(R) /\ Joined(R, c, T) /\ c \notin R
  BY <1>2, FS_Subset
<1>4. Fits(ask, R)
  BY <1>2, <1>3, FewerFit
<1>5. Fits(l, R)
  <2>1. \A d \in R : ask[d] = l[d]
    BY <1>3
  <2> HIDE DEF R
  <2> QED BY <1>4, <2>1, SameBooks
<1>6. a.ip \in Ips /\ a.tr \in {"sse", "ws"} /\ a.acc \in Holders \cup {Anonymous}
  BY DEF limits!Wishes
<1>7. \A X \in SUBSET R : Cardinality(X) \in Nat
  BY <1>3, PartsCount
<1>8. Cardinality(R) < TotalSlots
  <2>1. Cardinality(R) = Cardinality(slots) - Cardinality(E)
    BY <1>1, <1>2, PartsCount
  <2>2. Cardinality(slots) - Cardinality(E) < TotalSlots
    BY Counting DEF limits!Admits
  <2> QED BY <2>1, <2>2
<1>9. a.acc = Anonymous => /\ Cardinality(Unnamed(l, R)) < AnonSlots
                           /\ Cardinality(Where(l, Unnamed(l, R), a.ip)) < AnonPerIp
  <2> SUFFICES ASSUME a.acc = Anonymous
               PROVE  /\ Cardinality(Unnamed(l, R)) < AnonSlots
                      /\ Cardinality(Where(l, Unnamed(l, R), a.ip)) < AnonPerIp
    OBVIOUS
  <2>1. R = slots
    BY <1>1
  <2>2. anonCount < AnonSlots /\ byIpAnon[a.ip] < AnonPerIp
    BY DEF limits!Admits
  <2>3. anonCount = Cardinality(Unnamed(ask, slots))
        /\ byIpAnon[a.ip] = Cardinality(Where(ask, Unnamed(ask, slots), a.ip))
    BY <1>2, <1>6 DEF Booked
  <2>4. Unnamed(l, slots) = Unnamed(ask, slots)
        /\ \A i : Where(l, Unnamed(l, slots), i) = Where(ask, Unnamed(ask, slots), i)
    BY SameAsks
  <2> QED BY <2>1, <2>2, <2>3, <2>4
<1>10. a.ip \in Trusted \/ Cardinality(Where(l, R, a.ip)) < PerIp
  <2>1. a.ip \in Trusted \/ byIp[a.ip] - limits!FreedAt(a) < PerIp
    BY DEF limits!Admits
  <2>2. limits!FreedAt(a) = Cardinality(Where(ask, E, a.ip))
    BY Counting DEF limits!FreedAt, Where
  <2>3. byIp[a.ip] = Cardinality(Where(ask, slots, a.ip))
    BY <1>2, <1>6 DEF Booked
  <2>4. /\ Where(ask, slots, a.ip) \in SUBSET slots
        /\ Where(ask, E, a.ip) \in SUBSET Where(ask, slots, a.ip)
        /\ Where(ask, slots, a.ip) \ Where(ask, E, a.ip) = Where(ask, R, a.ip)
    BY <1>1 DEF Where
  <2>5. IsFiniteSet(Where(ask, slots, a.ip))
    BY <1>2, <2>4, FS_Subset
  <2>6. Cardinality(Where(ask, R, a.ip)) =
          Cardinality(Where(ask, slots, a.ip)) - Cardinality(Where(ask, E, a.ip))
    BY <2>4, <2>5, PartsCount
  <2>7. Where(l, R, a.ip) = Where(ask, R, a.ip)
    BY <1>3 DEF Where
  <2> QED BY <2>1, <2>2, <2>3, <2>6, <2>7
<1>11. a.acc \in Holders =>
          /\ Cardinality(Of(l, R, a.acc)) < PerAccount + 1
          /\ Cardinality(OfBy(l, R, a.acc, a.tr)) < PerAccount
  <2> SUFFICES ASSUME a.acc \in Holders
               PROVE  /\ Cardinality(Of(l, R, a.acc)) < PerAccount + 1
                      /\ Cardinality(OfBy(l, R, a.acc, a.tr)) < PerAccount
    OBVIOUS
  <2>0. a.acc # Anonymous
    BY Ceilings
  <2>1. Of(l, R, a.acc) = Of(ask, R, a.acc) /\ OfBy(l, R, a.acc, a.tr) = OfBy(ask, R, a.acc, a.tr)
    BY <1>3 DEF Of, OfBy
  <2>2. /\ Of(ask, R, a.acc) \in SUBSET slots /\ OfBy(ask, R, a.acc, a.tr) \in SUBSET Of(ask, R, a.acc)
        /\ Of(ask, slots, a.acc) \in SUBSET slots /\ OfBy(ask, slots, a.acc, a.tr) \in SUBSET slots
    BY DEF Of, OfBy
  <2>3. IsFiniteSet(Of(ask, R, a.acc)) /\ IsFiniteSet(Of(ask, slots, a.acc))
        /\ IsFiniteSet(OfBy(ask, slots, a.acc, a.tr))
    BY <1>2, <2>2, FS_Subset
  <2>4. /\ Cardinality(OfBy(ask, R, a.acc, a.tr)) <= Cardinality(Of(ask, R, a.acc))
        /\ Cardinality(OfBy(ask, R, a.acc, a.tr)) \in Nat /\ Cardinality(Of(ask, R, a.acc)) \in Nat
    BY <2>2, <2>3, PartsCount
  <2>5. /\ Cardinality(Of(ask, slots, a.acc)) <= PerAccount + 1
        /\ Cardinality(OfBy(ask, slots, a.acc, a.tr)) <= PerAccount
        /\ \A tr \in {"sse", "ws"} : Cardinality(OfBy(ask, slots, a.acc, tr)) <= PerAccount
    BY <1>2, <1>6 DEF Fits, AccountsFit
  <2>6. CASE E = {} /\ Cardinality(Of(ask, slots, a.acc)) < PerAccount
    <3>1. Of(ask, R, a.acc) = Of(ask, slots, a.acc)
      BY <2>6
    <3> QED BY <2>1, <2>4, <2>6, <3>1, Ceilings
  <2>7. CASE E = {} /\ OfBy(ask, slots, a.acc, a.tr) = {}
    <3>1. R = slots
      BY <2>7
    <3>2. PICK tr \in {"sse", "ws"} : tr # a.tr
      BY <1>6
    <3>3. \A d \in slots : ask[d].tr \in {"sse", "ws"}
      BY DEF SlotsInv, SlotTypes, limits!Wishes
    <3>4. Of(ask, slots, a.acc) = OfBy(ask, slots, a.acc, tr)
      <4>1. \A d \in Of(ask, slots, a.acc) : ask[d].tr # a.tr
        BY <2>7 DEF Of, OfBy
      <4>2. \A d \in Of(ask, slots, a.acc) : ask[d].tr = tr
        BY <1>6, <3>2, <3>3, <4>1 DEF Of
      <4> QED BY <4>2 DEF Of, OfBy
    <3>5. Cardinality(OfBy(ask, slots, a.acc, tr)) <= PerAccount
      BY <2>5
    <3>6. Cardinality(OfBy(ask, slots, a.acc, a.tr)) = 0
      BY <2>7, FS_EmptySet
    <3>7. Cardinality(Of(ask, R, a.acc)) <= PerAccount /\ Cardinality(OfBy(ask, R, a.acc, a.tr)) = 0
      BY <3>1, <3>4, <3>5, <3>6
    <3> HIDE DEF R
    <3> QED BY <2>1, <2>4, <3>7, Ceilings
  <2>8. CASE \E d \in OfBy(ask, slots, a.acc, a.tr) : E = {d}
    <3>1. PICK d \in OfBy(ask, slots, a.acc, a.tr) : E = {d}
      BY <2>8
    <3>2. /\ Of(ask, R, a.acc) = Of(ask, slots, a.acc) \ {d} /\ d \in Of(ask, slots, a.acc)
          /\ OfBy(ask, R, a.acc, a.tr) = OfBy(ask, slots, a.acc, a.tr) \ {d}
      BY <3>1 DEF Of, OfBy
    <3>3. /\ Cardinality(Of(ask, slots, a.acc) \ {d}) = Cardinality(Of(ask, slots, a.acc)) - 1
          /\ Cardinality(OfBy(ask, slots, a.acc, a.tr) \ {d}) =
               Cardinality(OfBy(ask, slots, a.acc, a.tr)) - 1
      BY <2>3, <3>1, <3>2, FS_RemoveElement
    <3>4. Cardinality(Of(ask, slots, a.acc)) \in Nat /\ Cardinality(OfBy(ask, slots, a.acc, a.tr)) \in Nat
      BY <2>3, FS_CardinalityType
    <3>5. /\ Cardinality(Of(ask, R, a.acc)) = Cardinality(Of(ask, slots, a.acc)) - 1
          /\ Cardinality(OfBy(ask, R, a.acc, a.tr)) = Cardinality(OfBy(ask, slots, a.acc, a.tr)) - 1
      BY <3>2, <3>3
    <3> HIDE DEF R
    <3> QED BY <2>1, <2>5, <3>4, <3>5, Ceilings
  <2>9. \/ E = {} /\ (Cardinality(Of(ask, slots, a.acc)) < PerAccount \/ OfBy(ask, slots, a.acc, a.tr) = {})
        \/ \E d \in OfBy(ask, slots, a.acc, a.tr) : E = {d}
    BY <2>0, WhoIsEvicted DEF SlotsInv
  <2> QED BY <2>6, <2>7, <2>8, <2>9
<1> HIDE DEF R, E
<1>12. /\ Cardinality(R) \in Nat /\ Cardinality(Unnamed(l, R)) \in Nat
       /\ \A i : Cardinality(Where(l, R, i)) \in Nat /\ Cardinality(Where(l, Unnamed(l, R), i)) \in Nat
       /\ \A b : Cardinality(Of(l, R, b)) \in Nat /\ \A tr : Cardinality(OfBy(l, R, b, tr)) \in Nat
  <2>1. /\ R \in SUBSET R /\ Unnamed(l, R) \in SUBSET R
        /\ \A i : Where(l, R, i) \in SUBSET R /\ Where(l, Unnamed(l, R), i) \in SUBSET R
        /\ \A b : Of(l, R, b) \in SUBSET R /\ \A tr : OfBy(l, R, b, tr) \in SUBSET R
    BY DEF Unnamed, Where, Of, OfBy
  <2> QED BY <1>7, <2>1
<1>13. Cardinality(T) = Cardinality(R) + 1
  BY <1>3, OneMore
<1>14. Cardinality(T) <= TotalSlots
  BY <1>8, <1>12, <1>13, Ceilings
<1>15. Cardinality(Unnamed(l, T)) <= AnonSlots
  <2>1. Cardinality(Unnamed(l, R)) <= AnonSlots
    BY <1>5 DEF Fits
  <2>2. CASE a.acc = Anonymous
    <3>1. Cardinality(Unnamed(l, T)) = Cardinality(Unnamed(l, R)) + 1
      BY <1>3, <2>2, OneMoreUnnamed
    <3> QED BY <1>9, <1>12, <2>2, <3>1, Ceilings
  <2>3. CASE a.acc # Anonymous
    <3>1. Unnamed(l, T) = Unnamed(l, R)
      BY <1>3, <2>3, OneMoreUnnamed
    <3> QED BY <2>1, <3>1
  <2> QED BY <2>2, <2>3
<1>16. ASSUME NEW i \in Ips
       PROVE  /\ Cardinality(Where(l, Unnamed(l, T), i)) <= AnonPerIp
              /\ i \in Trusted \/ Cardinality(Where(l, T, i)) <= PerIp
  <2>1. Cardinality(Where(l, Unnamed(l, R), i)) <= AnonPerIp
        /\ (i \in Trusted \/ Cardinality(Where(l, R, i)) <= PerIp)
    BY <1>5 DEF Fits
  <2>2. Cardinality(Where(l, T, i)) =
          IF i = a.ip THEN Cardinality(Where(l, R, i)) + 1 ELSE Cardinality(Where(l, R, i))
    BY <1>3, OneMoreAt
  <2>3. i \in Trusted \/ Cardinality(Where(l, T, i)) <= PerIp
    BY <1>10, <1>12, <2>1, <2>2, Ceilings
  <2>4. CASE a.acc = Anonymous
    <3>1. Cardinality(Where(l, Unnamed(l, T), i)) =
            IF i = a.ip THEN Cardinality(Where(l, Unnamed(l, R), i)) + 1
            ELSE Cardinality(Where(l, Unnamed(l, R), i))
      <4>1. /\ Joined(Unnamed(l, R), c, Unnamed(l, T)) /\ IsFiniteSet(Unnamed(l, R))
            /\ c \notin Unnamed(l, R)
        BY <1>3, <2>4, OneMoreUnnamed
      <4> QED BY <4>1, OneMoreAt
    <3>2. Cardinality(Where(l, Unnamed(l, T), i)) <= AnonPerIp
      BY <1>9, <1>12, <2>1, <2>4, <3>1, Ceilings
    <3> QED BY <2>3, <3>2
  <2>5. CASE a.acc # Anonymous
    <3>1. Unnamed(l, T) = Unnamed(l, R)
      BY <1>3, <2>5, OneMoreUnnamed
    <3> QED BY <2>1, <2>3, <3>1
  <2> QED BY <2>4, <2>5
<1>17. ASSUME NEW b \in Holders
       PROVE  /\ Cardinality(Of(l, T, b)) <= PerAccount + 1
              /\ \A tr \in {"sse", "ws"} : Cardinality(OfBy(l, T, b, tr)) <= PerAccount
  <2>1. Cardinality(Of(l, R, b)) <= PerAccount + 1
        /\ \A tr \in {"sse", "ws"} : Cardinality(OfBy(l, R, b, tr)) <= PerAccount
    BY <1>5 DEF Fits, AccountsFit
  <2>2. Cardinality(Of(l, T, b)) <= PerAccount + 1
    <3>1. CASE b = a.acc
      <4>1. Cardinality(Of(l, T, b)) = Cardinality(Of(l, R, b)) + 1
        BY <1>3, <3>1, OneMoreOf
      <4> QED BY <1>11, <1>12, <3>1, <4>1, Ceilings
    <3>2. CASE b # a.acc
      <4>1. Of(l, T, b) = Of(l, R, b)
        BY <1>3, <3>2, OneMoreOf
      <4> QED BY <2>1, <4>1
    <3> QED BY <3>1, <3>2
  <2>3. ASSUME NEW tr \in {"sse", "ws"} PROVE Cardinality(OfBy(l, T, b, tr)) <= PerAccount
    <3>1. CASE b = a.acc /\ tr = a.tr
      <4>1. Cardinality(OfBy(l, T, b, tr)) = Cardinality(OfBy(l, R, b, tr)) + 1
        BY <1>3, <3>1, OneMoreOfBy
      <4> QED BY <1>11, <1>12, <3>1, <4>1, Ceilings
    <3>2. CASE b # a.acc \/ tr # a.tr
      <4>1. OfBy(l, T, b, tr) = OfBy(l, R, b, tr)
        BY <1>3, <3>2, OneMoreOfBy
      <4> QED BY <2>1, <4>1
    <3> QED BY <3>1, <3>2
  <2> QED BY <2>2, <2>3
<1>18. AccountsFit(l, T)
  BY <1>17 DEF AccountsFit
<1> QED BY <1>14, <1>15, <1>16, <1>18 DEF Fits

LEMMA SlotsInit == CampusInit => SlotsInv
<1> SUFFICES ASSUME limits!Init PROVE SlotsInv
  BY DEF CampusInit
<1>0. /\ slots = {} /\ nextId = 1 /\ anonCount = 0 /\ stage = [c \in Conns |-> "idle"]
      /\ ask = [c \in Conns |-> limits!NoAsk] /\ id = [c \in Conns |-> 0]
      /\ byIp = [i \in Ips |-> 0] /\ byIpAnon = [i \in Ips |-> 0]
  BY DEF limits!Init
<1>1. SlotTypes /\ SlotsTaken
  BY <1>0, FS_EmptySet DEF SlotTypes, SlotsTaken, Live
<1>2. /\ Unnamed(ask, slots) = {} /\ \A i : Where(ask, slots, i) = {}
      /\ \A i : Where(ask, Unnamed(ask, slots), i) = {}
      /\ \A a : Of(ask, slots, a) = {} /\ \A tr : OfBy(ask, slots, a, tr) = {}
  BY <1>0 DEF Unnamed, Where, Of, OfBy
<1>3. Cardinality({}) = 0 /\ Cardinality(slots) = 0
  BY <1>0, FS_EmptySet
<1>4. Booked(ask, slots, byIp, byIpAnon, anonCount)
  <2>1. byIp \in [Ips -> Nat] /\ byIpAnon \in [Ips -> Nat] /\ \A i \in Ips : byIp[i] = 0 /\ byIpAnon[i] = 0
    BY <1>0
  <2> QED BY <1>0, <1>2, <1>3, <2>1 DEF Booked
<1>5. Fits(ask, slots)
  BY <1>2, <1>3, Ceilings DEF Fits, AccountsFit
<1> QED BY <1>1, <1>4, <1>5 DEF SlotsInv

\* A step after which the table books the slots it has, and they fit.
LEMMA SlotsAfter ==
  ASSUME SlotTypes', SlotsTaken', Booked(ask', slots', byIp', byIpAnon', anonCount'),
         Fits(ask', slots')
  PROVE  SlotsInv'
<1>1. Booked(ask, slots, byIp, byIpAnon, anonCount)' = Booked(ask', slots', byIp', byIpAnon', anonCount')
  OBVIOUS
<1>2. Fits(ask, slots)' = Fits(ask', slots')
  OBVIOUS
<1> QED BY <1>1, <1>2 DEF SlotsInv

\* A connection attempt: admitted, admitted and at once gone, or refused.
LEMMA ConnectKeeps ==
  ASSUME SlotsInv, NEW c \in Conns, limits!Connect(c)
  PROVE  SlotsInv'
<1>1. PICK a \in limits!Wishes : \E first \in limits!FirstStages(a) :
        /\ ask' = [ask EXCEPT ![c] = a]
        /\ IF limits!Admits(a)
           THEN /\ stage' = [d \in Conns |-> IF d = c THEN first
                                             ELSE IF d \in limits!Evicted(a) THEN limits!Replaced(d)
                                             ELSE stage[d]]
                /\ id' = [id EXCEPT ![c] = nextId] /\ nextId' = nextId + 1
                /\ limits!Becomes(IF first = "closed" THEN limits!Release(limits!Evicted(a))
                                  ELSE limits!Taken(limits!Release(limits!Evicted(a)), c, a))
           ELSE stage' = [stage EXCEPT ![c] = "closed"] /\ UNCHANGED limits!tableVars
  BY DEF limits!Connect
<1>2. PICK first \in limits!FirstStages(a) :
        /\ ask' = [ask EXCEPT ![c] = a]
        /\ IF limits!Admits(a)
           THEN /\ stage' = [d \in Conns |-> IF d = c THEN first
                                             ELSE IF d \in limits!Evicted(a) THEN limits!Replaced(d)
                                             ELSE stage[d]]
                /\ id' = [id EXCEPT ![c] = nextId] /\ nextId' = nextId + 1
                /\ limits!Becomes(IF first = "closed" THEN limits!Release(limits!Evicted(a))
                                  ELSE limits!Taken(limits!Release(limits!Evicted(a)), c, a))
           ELSE stage' = [stage EXCEPT ![c] = "closed"] /\ UNCHANGED limits!tableVars
  BY <1>1
<1> DEFINE E == limits!Evicted(a)
           R == slots \ E
           t == limits!Release(E)
<1>3. stage[c] = "idle" /\ c \notin slots
  <2>1. stage[c] = "idle"
    BY DEF limits!Connect
  <2> QED BY <2>1 DEF SlotsInv, SlotsTaken, Live
<1>4. /\ E \in SUBSET slots /\ R \in SUBSET slots /\ c \notin R /\ IsFiniteSet(slots)
      /\ slots \subseteq Conns
  BY WhoIsEvicted, <1>3 DEF SlotsInv, SlotTypes
<1>5. DOMAIN ask' = Conns /\ ask'[c] = a /\ \A d \in Conns : d # c => ask'[d] = ask[d]
  BY <1>2 DEF SlotsInv, SlotTypes
<1>6. \A d \in slots : ask'[d] = ask[d]
  BY <1>3, <1>4, <1>5
<1>7. t.slots = R /\ Booked(ask, R, t.byIp, t.byIpAnon, t.anonCount)
  BY <1>4, ReleaseBooks DEF SlotsInv
<1>8. IsFiniteSet(R) /\ Fits(ask, R)
  BY <1>4, FewerFit, FS_Subset DEF SlotsInv
<1> HIDE DEF t, E
<1>9. Fits(ask', R) /\ Booked(ask', R, t.byIp, t.byIpAnon, t.anonCount)
  <2>1. \A d \in R : ask[d] = ask'[d]
    BY <1>4, <1>6
  <2> HIDE DEF R
  <2> QED BY <1>7, <1>8, <2>1, SameBooks
<1>10. limits!Admits(a) =>
         /\ DOMAIN stage' = Conns /\ id' \in [Conns -> Nat] /\ nextId' \in Nat
         /\ stage'[c] = first
         /\ \A d \in E : stage'[d] \notin {"open", "stillborn"}
         /\ \A d \in Conns \ E : d # c => stage'[d] = stage[d]
  <2> SUFFICES ASSUME limits!Admits(a)
               PROVE  /\ DOMAIN stage' = Conns /\ id' \in [Conns -> Nat] /\ nextId' \in Nat
                      /\ stage'[c] = first
                      /\ \A d \in E : stage'[d] \notin {"open", "stillborn"}
                      /\ \A d \in Conns \ E : d # c => stage'[d] = stage[d]
    OBVIOUS
  <2>1. stage' = [d \in Conns |-> IF d = c THEN first
                                  ELSE IF d \in E THEN limits!Replaced(d) ELSE stage[d]]
        /\ id' = [id EXCEPT ![c] = nextId] /\ nextId' = nextId + 1
    BY <1>2 DEF E
  <2>2. id \in [Conns -> Nat] /\ nextId \in Nat
    BY DEF SlotsInv, SlotTypes
  <2>3. id' \in [Conns -> Nat] /\ nextId' \in Nat
    BY <2>1, <2>2
  <2>4. \A d \in E : limits!Replaced(d) \in {"closed", "shaking", "closing"}
    BY DEF limits!Replaced
  <2>5. \A d \in E : d \in Conns /\ d # c
    BY <1>3, <1>4
  <2> QED BY <2>1, <2>3, <2>4, <2>5
<1>11. \A d \in Conns : /\ stage[d] \in {"open", "stillborn"} => d \in slots
                        /\ d \in slots => stage[d] \in {"open", "stillborn", "shaking"}
  BY DEF SlotsInv, SlotsTaken, Live
<1>12. CASE limits!Admits(a) /\ first = "closed"
  <2>1. limits!Becomes(t)
    BY <1>2, <1>12 DEF t, E
  <2>2. slots' = R /\ byIp' = t.byIp /\ byIpAnon' = t.byIpAnon /\ anonCount' = t.anonCount
    BY <1>7, <2>1 DEF limits!Becomes
  <2>3. SlotTypes'
    BY <1>4, <1>5, <1>6, <1>8, <1>10, <1>12, <2>2 DEF SlotsInv, SlotTypes
  <2>4. SlotsTaken'
    BY <1>4, <1>10, <1>11, <1>12, <2>2 DEF SlotsTaken, Live
  <2>5. Booked(ask', slots', byIp', byIpAnon', anonCount') /\ Fits(ask', slots')
    BY <1>9, <2>2
  <2> QED BY <2>3, <2>4, <2>5, SlotsAfter
<1>13. CASE limits!Admits(a) /\ first # "closed"
  <2> DEFINE u == limits!Taken(t, c, a)
  <2>1. limits!Becomes(u)
    BY <1>2, <1>13 DEF t, E
  <2>2. slots' = u.slots /\ byIp' = u.byIp /\ byIpAnon' = u.byIpAnon /\ anonCount' = u.anonCount
    BY <2>1 DEF limits!Becomes
  <2>3. u.slots = t.slots \cup {c} /\ Booked(ask', u.slots, u.byIp, u.byIpAnon, u.anonCount)
    <3>1. IsFiniteSet(t.slots) /\ c \notin t.slots /\ ask'[c] = a
          /\ Booked(ask', t.slots, t.byIp, t.byIpAnon, t.anonCount)
      BY <1>4, <1>5, <1>7, <1>8, <1>9
    <3> QED BY <3>1, TakenBooks
  <2> HIDE DEF u
  <2>4. slots' = R \cup {c}
    BY <1>7, <2>2, <2>3
  <2>5. Fits(ask', slots')
    <3>1. Joined(slots \ limits!Evicted(a), c, slots')
      BY <2>4 DEF Joined, E
    <3> QED BY <1>3, <1>5, <1>6, <1>13, <3>1, TakenFits
  <2>6. Booked(ask', slots', byIp', byIpAnon', anonCount')
    BY <2>2, <2>3
  <2>7. SlotTypes'
    <3>1. IsFiniteSet(slots') /\ slots' \subseteq Conns
      BY <1>4, <1>8, <2>4, FS_AddElement
    <3>2. \A d \in slots' : ask'[d] \in limits!Wishes
      BY <1>4, <1>5, <1>6, <2>4 DEF SlotsInv, SlotTypes
    <3> QED BY <1>5, <1>10, <1>13, <3>1, <3>2 DEF SlotTypes
  <2>8. SlotsTaken'
    <3>1. first \in {"open", "stillborn", "shaking"}
      BY <1>2, <1>13 DEF limits!FirstStages
    <3> QED BY <1>4, <1>10, <1>11, <1>13, <2>4, <3>1 DEF SlotsTaken, Live
  <2> QED BY <2>5, <2>6, <2>7, <2>8, SlotsAfter
<1>14. CASE ~limits!Admits(a)
  <2>1. stage' = [stage EXCEPT ![c] = "closed"] /\ UNCHANGED limits!tableVars
    BY <1>2, <1>14
  <2>2. /\ slots' = slots /\ id' = id /\ nextId' = nextId /\ byIp' = byIp /\ byIpAnon' = byIpAnon
        /\ anonCount' = anonCount
    BY <2>1 DEF limits!tableVars
  <2>3. SlotTypes'
    BY <1>5, <1>6, <2>1, <2>2 DEF SlotsInv, SlotTypes
  <2>4. SlotsTaken'
    BY <1>3, <2>1, <2>2 DEF SlotsInv, SlotTypes, SlotsTaken, Live
  <2>5. Booked(ask', slots, byIp, byIpAnon, anonCount) /\ Fits(ask', slots)
    BY <1>6, SameBooks DEF SlotsInv
  <2>6. Booked(ask', slots', byIp', byIpAnon', anonCount') /\ Fits(ask', slots')
    BY <2>2, <2>5
  <2> QED BY <2>3, <2>4, <2>6, SlotsAfter
<1> QED BY <1>12, <1>13, <1>14

\* A connection that ends gives its own slot back, if it still has one.
LEMMA CloseKeeps ==
  ASSUME SlotsInv, NEW c \in Conns, limits!Close(c) \/ limits!Sweep(c)
  PROVE  SlotsInv'
<1> DEFINE C == limits!Mine(c)
           t == limits!Release(C)
<1>1. /\ stage' = [stage EXCEPT ![c] = "closed"] /\ limits!Becomes(t)
      /\ ask' = ask /\ id' = id /\ nextId' = nextId
  BY DEF limits!Close, limits!Sweep
<1>2. C \in SUBSET slots /\ slots \ C = slots \ {c}
  BY DEF limits!Mine
<1>3. t.slots = slots \ C /\ Booked(ask, slots \ C, t.byIp, t.byIpAnon, t.anonCount)
  BY <1>2, ReleaseBooks DEF SlotsInv, SlotTypes
<1>4. slots' = slots \ C /\ byIp' = t.byIp /\ byIpAnon' = t.byIpAnon /\ anonCount' = t.anonCount
  BY <1>1, <1>3 DEF limits!Becomes
<1> HIDE DEF t, C
<1>5. IsFiniteSet(slots \ C) /\ Fits(ask, slots \ C)
  BY FewerFit, FS_Subset DEF SlotsInv, SlotTypes
<1>6. SlotTypes'
  BY <1>1, <1>4, <1>5 DEF SlotsInv, SlotTypes
<1>7. SlotsTaken'
  BY <1>1, <1>2, <1>4 DEF SlotsInv, SlotTypes, SlotsTaken, Live
<1>8. Booked(ask', slots', byIp', byIpAnon', anonCount') /\ Fits(ask', slots')
  BY <1>1, <1>3, <1>4, <1>5
<1> QED BY <1>6, <1>7, <1>8, SlotsAfter

LEMMA SlotsAlways == CampusSpec => []SlotsInv
<1>1. SlotsInv /\ limits!Next => SlotsInv'
  BY ConnectKeeps, CloseKeeps DEF limits!Next
<1>2. SlotsInv /\ UNCHANGED slotVars => SlotsInv'
  <2> SUFFICES ASSUME SlotsInv, UNCHANGED slotVars PROVE SlotsInv'
    OBVIOUS
  <2>1. /\ ask' = ask /\ stage' = stage /\ slots' = slots /\ id' = id /\ nextId' = nextId
        /\ byIp' = byIp /\ byIpAnon' = byIpAnon /\ anonCount' = anonCount
    BY DEF slotVars
  <2>2. SlotTypes' /\ SlotsTaken'
    BY <2>1 DEF SlotsInv, SlotTypes, SlotsTaken, Live
  <2>3. Booked(ask', slots', byIp', byIpAnon', anonCount') /\ Fits(ask', slots')
    BY <2>1 DEF SlotsInv
  <2> QED BY <2>2, <2>3, SlotsAfter
<1>3. [CampusNext]_campusVars => limits!Next \/ UNCHANGED slotVars
  BY DEF CampusNext, HubMoves, LimitsMove, MapMoves, BountyMoves, campusVars
<1>4. SlotsInv /\ [CampusNext]_campusVars => SlotsInv'
  BY <1>1, <1>2, <1>3
<1> QED BY SlotsInit, <1>4, PTL DEF CampusSpec

\* Every open stream and socket holds a slot, and what the table counts is
\* what is open, in any order of replacements, closes, failed handshakes and
\* sweeps: src/src/common/streamLimits.ts tryAcquire and release, and the two
\* transports that call them.
THEOREM NoStreamOffTheBooks == CampusSpec => []EveryStreamIsCounted
<1>1. SlotsInv => EveryStreamIsCounted
  <2> SUFFICES ASSUME SlotsInv PROVE EveryStreamIsCounted
    OBVIOUS
  <2>1. Live \subseteq slots /\ slots \subseteq Live \cup {c \in Conns : stage[c] = "shaking"}
    BY DEF SlotsInv, SlotsTaken, SlotTypes
  <2>2. anonCount = limits!Cardinality({c \in slots : ask[c].acc = Anonymous})
    BY Counting DEF SlotsInv, Booked, Unnamed
  <2>3. ASSUME NEW i \in Ips
        PROVE  /\ byIp[i] = limits!CountAt(slots, i)
               /\ byIpAnon[i] = limits!CountAt({c \in slots : ask[c].acc = Anonymous}, i)
    BY Counting DEF SlotsInv, Booked, limits!CountAt, Where, Unnamed
  <2> QED BY <2>1, <2>2, <2>3 DEF EveryStreamIsCounted, limits!EveryStreamIsCounted, Live
<1> QED BY <1>1, SlotsAlways, PTL

\* No ceiling is passed, of the table, an address, the anonymous pool or an
\* account: the same code.
THEOREM NoCeilingIsPassed == CampusSpec => []CeilingsHold
<1>1. SlotsInv => CeilingsHold
  <2> SUFFICES ASSUME SlotsInv PROVE CeilingsHold
    OBVIOUS
  <2>1. limits!Cardinality(slots) <= TotalSlots /\ anonCount <= AnonSlots
    BY Counting DEF SlotsInv, Booked, Fits
  <2>2. \A i \in Ips : byIpAnon[i] <= AnonPerIp /\ (i \in Trusted \/ byIp[i] <= PerIp)
    BY DEF SlotsInv, Booked, Fits
  <2>3. \A a \in Holders : limits!Cardinality({c \in slots : ask[c].acc = a}) <= PerAccount + 1
    BY Counting DEF SlotsInv, Fits, AccountsFit, Of
  <2> QED BY <2>1, <2>2, <2>3 DEF CeilingsHold, limits!CeilingsHold
<1> QED BY <1>1, SlotsAlways, PTL

-----------------------------------------------------------------------------
(* The event hub: who is sent what                                         *)

Kinds == {"event", "CONNECTED", "RESYNC", "EVICTED"}
Frames == [id : Nat, kind : Kinds, full : BOOLEAN]
Logged == [ch : ReplayChannels \cup {"me"}, aud : {"ALL", "STAFF"} \cup Accounts]

MaySee(d, e, full) ==
    /\ e.aud = "STAFF" => IsLead(d)
    /\ e.ch = "me" => d \in proven /\ e.aud = who[d]
    /\ e.ch = "sos" /\ full => SeesAll(d)
Allowed(d) == {f \in Frames : f.kind = "event" => f.id \in 1..seq /\ MaySee(d, log[f.id], f.full)}

\* The counter numbers the log, the buffers hold events of their channel, a
\* client's view of tickets is its device's, and the wires carry what is allowed.
LogCounts == log \in Seq(Logged) /\ seq = Len(log)
BuffersHold ==
    /\ held \in [ReplayChannels -> SUBSET Nat]
    /\ \A ch \in ReplayChannels : \A i \in held[ch] : i \in 1..seq /\ log[i].ch = ch
ClientsKnown ==
    /\ fullSos \in [Devices -> BOOLEAN]
    /\ \A d \in open : d \in Devices /\ (fullSos[d] <=> SeesAll(d))
WiresAllowed == DOMAIN wire = Devices /\ wire = [d \in Devices |-> wire[d]]
                /\ \A d \in Devices : wire[d] \in Seq(Allowed(d))
HubInv == LogCounts /\ BuffersHold /\ ClientsKnown /\ WiresAllowed

LEMMA HubInit == CampusInit => HubInv
<1> SUFFICES ASSUME Init PROVE HubInv
  BY DEF CampusInit
<1>1. LogCounts /\ BuffersHold /\ ClientsKnown
  BY DEF Init, LogCounts, BuffersHold, ClientsKnown
<1>2. WiresAllowed
  BY DEF Init, WiresAllowed
<1> QED BY <1>1, <1>2 DEF HubInv

\* Of a finite set of numbers each place is somebody's.
LEMMA Ranked ==
  ASSUME NEW K, K \subseteq Nat, IsFiniteSet(K), NEW n \in 1..Cardinality(K)
  PROVE  \E j \in K : Cardinality({k \in K : k < j}) = n - 1
<1> DEFINE T == {m \in Nat : \A S \in SUBSET Nat : IsFiniteSet(S) /\ Cardinality(S) = m =>
                    \A p \in 1..m : \E j \in S : Cardinality({k \in S : k < j}) = p - 1}
<1>1. 0 \in T
  OBVIOUS
<1>2. ASSUME NEW m \in Nat, m \in T PROVE m + 1 \in T
  <2>1. ASSUME NEW S \in SUBSET Nat, IsFiniteSet(S), Cardinality(S) = m + 1, NEW p \in 1..(m + 1)
        PROVE  \E j \in S : Cardinality({k \in S : k < j}) = p - 1
    <3>1. S # {}
      BY <2>1, FS_EmptySet
    <3>2. PICK x \in S : \A y \in S : ~(<<y, x>> \in OpToRel(<, Nat))
      BY <3>1, NatLessThanWellFounded, WFMin
    <3>3. \A y \in S : ~(y < x)
      BY <3>2 DEF OpToRel
    <3> DEFINE R == S \ {x}
    <3>4. Cardinality(R) = Cardinality(S) - 1 /\ IsFiniteSet(R) /\ R \in SUBSET Nat
      BY <2>1, FS_RemoveElement
    <3>5. Cardinality(R) = m
      BY <2>1, <3>4
    <3>6. CASE p = 1
      <4>1. {k \in S : k < x} = {}
        BY <3>3
      <4>2. Cardinality({k \in S : k < x}) = 0
        BY <4>1, FS_EmptySet
      <4>3. p - 1 = 0
        BY <3>6
      <4> QED BY <4>2, <4>3
    <3>7. CASE p # 1
      <4>1. p - 1 \in 1..m
        BY <3>7
      <4>2. PICK j \in R : Cardinality({k \in R : k < j}) = (p - 1) - 1
        BY <1>2, <3>4, <3>5, <4>1
      <4> DEFINE L == {k \in R : k < j}
      <4>3. x < j /\ j \in S
        BY <3>3
      <4>4. {k \in S : k < j} = L \cup {x} /\ x \notin L
        BY <4>3
      <4>5. IsFiniteSet(L)
        BY <3>4, FS_Subset, L \in SUBSET R
      <4>6. Cardinality(L \cup {x}) = Cardinality(L) + 1
        BY <4>4, <4>5, FS_AddElement
      <4>7. Cardinality({k \in S : k < j}) = p - 1
        BY <4>2, <4>4, <4>6
      <4> QED BY <4>3, <4>7
    <3> QED BY <3>6, <3>7
  <2>2. m + 1 \in Nat
    OBVIOUS
  <2> QED BY <2>1, <2>2
<1>3. Nat \subseteq T
  <2> HIDE DEF T
  <2> QED BY <1>1, <1>2, Count
<1>4. Cardinality(K) \in Nat
  BY FS_CardinalityType
<1> QED BY <1>3, <1>4

\* What a resuming device is sent of the buffers, it may see.
LEMMA MissedIsAllowed ==
  ASSUME HubInv, NEW d \in Devices, NEW ids,
         \A i \in ids : i \in 1..seq /\ log[i].ch \in ReplayChannels
  PROVE  Missed(d, ids) \in Seq(Allowed(d))
<1> DEFINE keep == {i \in ids : i > mark[d] /\ AudienceReaches(log[i].aud, d)}
           pick(n) == CHOOSE j \in keep : Cardinality({k \in keep : k < j}) = n - 1
<1>1. seq \in Nat
  BY DEF HubInv, LogCounts
<1>2. keep \subseteq 1..seq /\ keep \subseteq Nat
  BY <1>1
<1>3. IsFiniteSet(1..seq)
  BY <1>1, FS_Interval
<1>4. IsFiniteSet(keep) /\ Cardinality(keep) \in Nat
  BY <1>2, <1>3, FS_Subset, FS_CardinalityType
<1>5. ASSUME NEW i \in keep
      PROVE  Frame(d, i, log[i].ch, SeesAll(d)) \in Allowed(d)
  <2>1. i \in 1..seq /\ log[i].ch \in ReplayChannels /\ AudienceReaches(log[i].aud, d)
    BY <1>2
  <2>2. log[i].aud = "STAFF" => IsLead(d)
    BY <2>1 DEF AudienceReaches
  <2>3. log[i].ch # "me"
    BY <2>1 DEF ReplayChannels
  <2> DEFINE f == Frame(d, i, log[i].ch, SeesAll(d))
  <2>4. f.id = i /\ f.kind = "event" /\ f \in Frames
    BY <1>2 DEF Frame, Event, Frames, Kinds
  <2>5. f.full /\ log[i].ch = "sos" => SeesAll(d)
    BY DEF Frame, Event
  <2> HIDE DEF f
  <2>6. MaySee(d, log[f.id], f.full)
    BY <2>2, <2>3, <2>4, <2>5 DEF MaySee
  <2> QED BY <2>1, <2>4, <2>6 DEF Allowed, f
<1>6. ASSUME NEW n \in 1..Cardinality(keep) PROVE pick(n) \in keep
  <2>1. \E j \in keep : Cardinality({k \in keep : k < j}) = n - 1
    BY <1>2, <1>4, Ranked
  <2> QED BY <2>1
<1>7. Missed(d, ids) = [n \in 1..Cardinality(keep) |-> Frame(d, pick(n), log[pick(n)].ch, SeesAll(d))]
  BY DEF Missed
<1> HIDE DEF keep, pick
<1>8. \A n \in 1..Cardinality(keep) : Frame(d, pick(n), log[pick(n)].ch, SeesAll(d)) \in Allowed(d)
  BY <1>5, <1>6
<1> QED BY <1>4, <1>7, <1>8

\* Facts about the wire that a step needs.
LEMMA ControlIsAllowed ==
  ASSUME NEW d, NEW kind \in Kinds \ {"event"}, seq \in Nat
  PROVE  Control(kind) \in Allowed(d)
BY DEF Control, Allowed, Frames, Kinds

\* A device may see later what it might see.
LEMMA AllowedStays ==
  ASSUME LogCounts, UNCHANGED <<who, proven>>, NEW e, log' = Append(log, e), seq' = seq + 1, NEW d
  PROVE  Allowed(d) \subseteq Allowed(d)'
<1> SUFFICES ASSUME NEW f \in Allowed(d) PROVE f \in Allowed(d)'
  OBVIOUS
<1>1. \A i \in 1..seq : log'[i] = log[i] /\ i \in 1..seq'
  BY DEF LogCounts
<1>2. who' = who /\ proven' = proven
  OBVIOUS
<1>3. f.kind = "event" => f.id \in 1..seq' /\ log'[f.id] = log[f.id]
  BY <1>1 DEF Allowed
<1>4. f.kind = "event" => MaySee(d, log[f.id], f.full)
  BY DEF Allowed
<1>5. f.kind = "event" => MaySee(d, log[f.id], f.full)'
  BY <1>2, <1>3, <1>4 DEF MaySee, IsLead, SeesAll
<1> QED BY <1>3, <1>5 DEF Allowed

\* Nothing is published, and who is who stays: what is allowed stays.
LEMMA AllowedSame ==
  ASSUME UNCHANGED <<who, proven, seq, log>>, NEW d
  PROVE  Allowed(d)' = Allowed(d)
<1>1. who' = who /\ proven' = proven /\ seq' = seq /\ log' = log
  OBVIOUS
<1> QED BY <1>1 DEF Allowed, MaySee, IsLead, SeesAll

\* An event goes to the devices of D, or an EVICTED frame in its place.
LEMMA Published ==
  ASSUME HubInv, UNCHANGED <<who, proven, fullSos>>, NEW e \in Logged,
         log' = Append(log, e), seq' = seq + 1,
         held' \in [ReplayChannels -> SUBSET Nat],
         \A ch \in ReplayChannels : \A i \in held'[ch] : i \in held[ch] \/ (i = seq' /\ e.ch = ch),
         open' \subseteq open,
         DOMAIN wire' = Devices, wire' = [d \in Devices |-> wire'[d]],
         \A d \in Devices : \/ wire'[d] = wire[d]
                            \/ \E f \in Frames : /\ wire'[d] = Append(wire[d], f)
                                                 /\ f.kind = "event" =>
                                                      f.id = seq' /\ MaySee(d, e, f.full)
  PROVE  HubInv'
<1>1. who' = who /\ proven' = proven /\ fullSos' = fullSos
  OBVIOUS
<1>2. log \in Seq(Logged) /\ seq = Len(log)
  BY DEF HubInv, LogCounts
<1>3. /\ LogCounts' /\ seq' \in 1..seq' /\ log'[seq'] = e
      /\ \A i \in 1..seq : log'[i] = log[i] /\ i \in 1..seq'
  BY <1>2 DEF LogCounts
<1>4. BuffersHold'
  <2> SUFFICES ASSUME NEW ch \in ReplayChannels, NEW i \in held'[ch]
               PROVE  i \in 1..seq' /\ log'[i].ch = ch
    BY DEF BuffersHold
  <2>1. i \in held[ch] => i \in 1..seq /\ log[i].ch = ch
    BY DEF HubInv, BuffersHold
  <2> QED BY <1>3, <2>1
<1>5. ClientsKnown'
  BY <1>1 DEF HubInv, ClientsKnown, SeesAll, IsLead
<1>6. ASSUME NEW d \in Devices PROVE wire'[d] \in Seq(Allowed(d)')
  <2>1. Allowed(d) \subseteq Allowed(d)'
    BY <1>1, AllowedStays DEF HubInv
  <2>2. wire[d] \in Seq(Allowed(d))
    BY DEF HubInv, WiresAllowed
  <2>3. wire[d] \in Seq(Allowed(d)')
    BY <2>1, <2>2
  <2>4. ASSUME NEW f \in Frames, f.kind = "event" => f.id = seq' /\ MaySee(d, e, f.full)
        PROVE  f \in Allowed(d)'
    <3>1. f.kind = "event" => f.id \in 1..seq' /\ log'[f.id] = e
      BY <1>3, <2>4
    <3>2. f.kind = "event" => MaySee(d, log[f.id], f.full)'
      BY <1>1, <2>4, <3>1 DEF MaySee, IsLead, SeesAll
    <3> QED BY <3>1, <3>2 DEF Allowed
  <2>5. CASE wire'[d] = wire[d]
    BY <2>3, <2>5
  <2>6. ASSUME NEW f \in Frames, wire'[d] = Append(wire[d], f),
               f.kind = "event" => f.id = seq' /\ MaySee(d, e, f.full)
        PROVE  wire'[d] \in Seq(Allowed(d)')
    <3>1. f \in Allowed(d)'
      BY <2>4, <2>6
    <3> HIDE DEF Allowed
    <3> QED BY <2>3, <2>6, <3>1
  <2> QED BY <2>5, <2>6
<1>7. WiresAllowed'
  BY <1>6 DEF WiresAllowed
<1> QED BY <1>3, <1>4, <1>5, <1>7 DEF HubInv

\* A step that publishes nothing keeps the wires if each is what it was, a

\* part of it, or allowed frames behind it.
LEMMA Silently ==
  ASSUME HubInv, UNCHANGED <<who, proven, seq, log>>, BuffersHold', ClientsKnown',
         DOMAIN wire' = Devices, wire' = [d \in Devices |-> wire'[d]],
         \A d \in Devices : wire'[d] \in Seq(Allowed(d))
  PROVE  HubInv'
<1>1. who' = who /\ proven' = proven /\ seq' = seq /\ log' = log
  OBVIOUS
<1>2. LogCounts'
  BY <1>1 DEF HubInv, LogCounts
<1>3. \A d : Allowed(d)' = Allowed(d)
  BY AllowedSame
<1>4. WiresAllowed'
  BY <1>3 DEF WiresAllowed
<1> QED BY <1>2, <1>4 DEF HubInv

LEMMA PublishKeeps ==
  ASSUME HubInv, UNCHANGED <<who, proven>>, NEW ch \in ReplayChannels, NEW aud \in Audiences(ch),
         Publish(ch, aud)
  PROVE  HubInv'
<1> DEFINE e == [ch |-> ch, aud |-> aud]
           D == {d \in open : ch \in channels[d] /\ AudienceReaches(aud, d)}
           full == (D \cap alive) \cap stalled
           bye == [id |-> seq', kind |-> "EVICTED", full |-> FALSE]
           F(d) == Frame(d, seq', ch, fullSos[d])
<1>1. seq' = seq + 1 /\ log' = Append(log, e) /\ seq' \in Nat /\ seq \in Nat
  BY DEF Publish, HubInv, LogCounts
<1>2. /\ open' = open \ ((D \ alive) \cup full) /\ fullSos' = fullSos
      /\ wire' = [d \in Devices |-> IF d \notin D \cap alive THEN wire[d]
                                    ELSE Append(wire[d], IF d \in full THEN bye ELSE F(d))]
  BY DEF Publish, WriteTo, Remove
<1>3. e \in Logged /\ e.ch = ch /\ e.aud = aud /\ ch # "me"
  BY DEF Logged, Audiences, ReplayChannels
<1>4. PICK gone : held' = [held EXCEPT ![ch] = (held[ch] \cup {seq'}) \ gone]
  BY DEF Publish
<1>5. held' \in [ReplayChannels -> SUBSET Nat]
      /\ \A c \in ReplayChannels : \A i \in held'[c] : i \in held[c] \/ (i = seq' /\ e.ch = c)
  BY <1>1, <1>3, <1>4 DEF HubInv, BuffersHold
<1>6. bye \in Frames /\ bye.kind # "event"
  BY <1>1 DEF Frames, Kinds
<1>7. ASSUME NEW d \in D
      PROVE  F(d) \in Frames /\ F(d).id = seq' /\ MaySee(d, e, F(d).full)
  <2>1. d \in open /\ d \in Devices /\ fullSos[d] \in BOOLEAN /\ AudienceReaches(aud, d)
        /\ (fullSos[d] => SeesAll(d))
    BY DEF HubInv, ClientsKnown
  <2> DEFINE b == ch # "sos" \/ fullSos[d]
  <2>2. F(d) = [id |-> seq', kind |-> "event", full |-> b]
    BY DEF Frame, Event
  <2>5. b \in BOOLEAN /\ (b /\ ch = "sos" => SeesAll(d))
    BY <2>1
  <2> HIDE DEF b
  <2>6. F(d) \in Frames /\ F(d).id = seq' /\ F(d).full = b
    BY <1>1, <2>2, <2>5 DEF Frames, Kinds
  <2>3. F(d) \in Frames /\ F(d).id = seq' /\ (F(d).full /\ ch = "sos" => SeesAll(d))
    BY <2>5, <2>6
  <2>4. aud = "STAFF" => IsLead(d)
    BY <2>1 DEF AudienceReaches
  <2> HIDE DEF F, e
  <2> QED BY <1>3, <2>3, <2>4 DEF MaySee
<1> HIDE DEF F, e, bye, full
<1>8. ASSUME NEW d \in Devices
      PROVE  \/ wire'[d] = wire[d]
             \/ \E f \in Frames : /\ wire'[d] = Append(wire[d], f)
                                  /\ f.kind = "event" => f.id = seq' /\ MaySee(d, e, f.full)
  <2>1. CASE d \notin D \cap alive
    BY <1>2, <2>1
  <2>2. CASE d \in D \cap alive /\ d \in full
    <3>1. wire'[d] = Append(wire[d], bye)
      BY <1>2, <2>2
    <3> QED BY <1>6, <3>1
  <2>3. CASE d \in D \cap alive /\ d \notin full
    <3>1. wire'[d] = Append(wire[d], F(d))
      BY <1>2, <2>3
    <3> HIDE DEF D
    <3> QED BY <1>7, <2>3, <3>1
  <2> QED BY <2>1, <2>2, <2>3
<1>9. DOMAIN wire' = Devices /\ wire' = [d \in Devices |-> wire'[d]] /\ open' \subseteq open
  BY <1>2
<1>10. UNCHANGED <<who, proven, fullSos>>
  BY <1>2
<1> HIDE DEF D
<1> QED BY <1>1, <1>3, <1>5, <1>8, <1>9, <1>10, Published

LEMMA SendKeeps ==
  ASSUME HubInv, UNCHANGED <<who, proven>>, NEW a \in Accounts, SendToAccount(a)
  PROVE  HubInv'
<1> DEFINE e == [ch |-> "me", aud |-> a]
           D == {d \in open : d \in proven /\ who[d] = a /\ "me" \in channels[d]}
           full == (D \cap alive) \cap stalled
           bye == [id |-> seq', kind |-> "EVICTED", full |-> FALSE]
           note == [id |-> seq', kind |-> "event", full |-> TRUE]
<1>1. seq' = seq + 1 /\ log' = Append(log, e) /\ seq' \in Nat /\ held' = held
  BY DEF SendToAccount, HubInv, LogCounts
<1>2. /\ open' = open \ ((D \ alive) \cup full) /\ fullSos' = fullSos
      /\ wire' = [d \in Devices |-> IF d \notin D \cap alive THEN wire[d]
                                    ELSE Append(wire[d], IF d \in full THEN bye ELSE note)]
  BY DEF SendToAccount, WriteTo, Remove, Event
<1>3. e \in Logged /\ e.ch = "me" /\ e.aud = a
  BY DEF Logged
<1>4. held' \in [ReplayChannels -> SUBSET Nat]
      /\ \A c \in ReplayChannels : \A i \in held'[c] : i \in held[c]
  BY <1>1 DEF HubInv, BuffersHold
<1>5. bye \in Frames /\ bye.kind # "event" /\ note \in Frames /\ note.id = seq'
  BY <1>1 DEF Frames, Kinds
<1>6. a # "STAFF"
  BY CampusAssumption DEF CampusAssumption
<1> HIDE DEF e, bye, note, full
<1>7. ASSUME NEW d \in D, NEW b PROVE MaySee(d, e, b)
  BY <1>3, <1>6 DEF MaySee
<1>8. ASSUME NEW d \in Devices
      PROVE  \/ wire'[d] = wire[d]
             \/ \E f \in Frames : /\ wire'[d] = Append(wire[d], f)
                                  /\ f.kind = "event" => f.id = seq' /\ MaySee(d, e, f.full)
  <2>1. CASE d \notin D \cap alive
    BY <1>2, <2>1
  <2>2. CASE d \in D \cap alive /\ d \in full
    <3>1. wire'[d] = Append(wire[d], bye)
      BY <1>2, <2>2
    <3> QED BY <1>5, <3>1
  <2>3. CASE d \in D \cap alive /\ d \notin full
    <3>1. wire'[d] = Append(wire[d], note)
      BY <1>2, <2>3
    <3> HIDE DEF D
    <3> QED BY <1>5, <1>7, <2>3, <3>1
  <2> QED BY <2>1, <2>2, <2>3
<1>9. DOMAIN wire' = Devices /\ wire' = [d \in Devices |-> wire'[d]] /\ open' \subseteq open
  BY <1>2
<1>10. UNCHANGED <<who, proven, fullSos>>
  BY <1>2
<1> HIDE DEF D
<1> QED BY <1>1, <1>3, <1>4, <1>8, <1>9, <1>10, Published

\* A stream opens: a greeting, and what the buffers still hold or the news

\* that they do not.
LEMMA HubConnectKeeps ==
  ASSUME HubInv, UNCHANGED <<who, proven>>, NEW d \in Devices, Connect(d)
  PROVE  HubInv'
<1> DEFINE joined == {ch \in Asks[d] : MayJoin(d, ch)}
           replay == joined \cap ReplayChannels
           hello == <<Control("CONNECTED")>>
           frames == Resumed(d, replay)
<1>1. /\ seq' = seq /\ log' = log /\ fullSos' = [fullSos EXCEPT ![d] = SeesAll(d)]
      /\ PruneAll(replay)
      /\ \/ /\ wire' = [wire EXCEPT ![d] = hello \o frames]
            /\ open' = open \cup {d}
         \/ \E k \in 1..Len(frames) - 1 :
              /\ wire' = [wire EXCEPT ![d] = hello \o SubSeq(frames, 1, k) \o <<Control("EVICTED")>>]
              /\ open' = open \ {d}
  BY DEF Connect
<1>2. PICK gone : held' = [ch \in ReplayChannels |-> held[ch] \ gone[ch]]
  BY <1>1 DEF PruneAll
<1>3. BuffersHold'
  BY <1>1, <1>2 DEF HubInv, BuffersHold
<1>4. seq \in Nat
  BY DEF HubInv, LogCounts
<1>5. /\ Control("CONNECTED") \in Allowed(d) /\ Control("RESYNC") \in Allowed(d)
      /\ Control("EVICTED") \in Allowed(d)
  BY <1>4, ControlIsAllowed DEF Kinds
<1>6. Missed(d, UNION {held'[ch] : ch \in replay}) \in Seq(Allowed(d))
  <2>1. \A i \in UNION {held'[ch] : ch \in replay} : i \in 1..seq /\ log[i].ch \in ReplayChannels
    BY <1>2 DEF HubInv, BuffersHold
  <2> HIDE DEF replay
  <2> QED BY <2>1, MissedIsAllowed
<1> HIDE DEF replay
<1>7. frames \in Seq(Allowed(d))
  <2>1. frames \in {<<>>, <<Control("RESYNC")>>, Missed(d, UNION {held'[ch] : ch \in replay})}
    BY DEF Resumed
  <2>2. <<Control("RESYNC")>> \in Seq(Allowed(d))
    <3> HIDE DEF Allowed, Control
    <3> QED BY <1>5
  <2>3. <<>> \in Seq(Allowed(d))
    OBVIOUS
  <2> HIDE DEF frames
  <2> QED BY <1>6, <2>1, <2>2, <2>3
<1> HIDE DEF frames
<1>8. hello \o frames \in Seq(Allowed(d))
      /\ \A k \in 1..Len(frames) - 1 :
           hello \o SubSeq(frames, 1, k) \o <<Control("EVICTED")>> \in Seq(Allowed(d))
  <2> DEFINE X == Allowed(d)
             c == Control("CONNECTED")
             v == Control("EVICTED")
  <2>1. c \in X /\ v \in X /\ frames \in Seq(X)
    BY <1>5, <1>7
  <2> HIDE DEF X, c, v
  <2>2. <<c>> \in Seq(X) /\ <<v>> \in Seq(X)
    BY <2>1
  <2>3. <<c>> \o frames \in Seq(X)
    BY <2>1, <2>2
  <2>4. ASSUME NEW k \in 1..Len(frames) - 1
        PROVE  <<c>> \o SubSeq(frames, 1, k) \o <<v>> \in Seq(X)
    <3>1. SubSeq(frames, 1, k) \in Seq(X)
      BY <2>1
    <3>2. <<c>> \o SubSeq(frames, 1, k) \in Seq(X)
      BY <2>2, <3>1
    <3> QED BY <2>2, <3>2
  <2> QED BY <2>3, <2>4 DEF X, c, v
<1> DEFINE w == wire'[d]
<1>9. \E x \in Seq(Allowed(d)) : wire' = [wire EXCEPT ![d] = x]
  BY <1>1, <1>8
<1>10. /\ DOMAIN wire' = Devices /\ wire' = [q \in Devices |-> wire'[q]]
       /\ \A q \in Devices : wire'[q] \in Seq(Allowed(q))
  BY <1>9 DEF HubInv, WiresAllowed
<1>11. ClientsKnown'
  <2>1. \A q : SeesAll(q)' <=> SeesAll(q)
    BY DEF SeesAll, IsLead
  <2>2. SeesAll(d) \in BOOLEAN
    BY DEF SeesAll, IsLead
  <2>3. open' \subseteq open \cup {d}
    BY <1>1
  <2>4. fullSos' \in [Devices -> BOOLEAN]
        /\ \A q \in Devices : fullSos'[q] = IF q = d THEN SeesAll(d) ELSE fullSos[q]
    BY <1>1, <2>2 DEF HubInv, ClientsKnown
  <2>5. \A q \in open' : q \in Devices /\ (fullSos'[q] <=> SeesAll(q))
    BY <2>3, <2>4 DEF HubInv, ClientsKnown
  <2> QED BY <2>1, <2>4, <2>5 DEF ClientsKnown
<1>12. UNCHANGED <<who, proven, seq, log>>
  BY <1>1
<1> QED BY <1>3, <1>10, <1>11, <1>12, Silently

\* A frame is read, a device stalls or drains, a socket breaks, the sweep.
LEMMA SocketKeeps ==
  ASSUME HubInv, UNCHANGED <<who, proven>>, NEW d \in Devices,
         Receive(d) \/ Stall(d) \/ Drain(d) \/ Cut(d) \/ Sweep(d)
  PROVE  HubInv'
<1>1. /\ seq' = seq /\ log' = log /\ held' = held /\ fullSos' = fullSos /\ open' \subseteq open
  BY DEF Receive, Stall, Drain, Cut, Sweep, Remove, hubVars, clientVars
<1>2. BuffersHold'
  BY <1>1 DEF HubInv, BuffersHold
<1>3. ClientsKnown'
  BY <1>1 DEF HubInv, ClientsKnown, SeesAll, IsLead
<1>4. wire[d] \in Seq(Allowed(d)) /\ seq \in Nat
  BY DEF HubInv, WiresAllowed, LogCounts
<1>5. Control("EVICTED") \in Allowed(d)
  BY <1>4, ControlIsAllowed DEF Kinds
<1>6. wire' = wire \/ \E x \in Seq(Allowed(d)) : wire' = [wire EXCEPT ![d] = x]
  <2>1. CASE Receive(d)
    <3>1. wire' = [wire EXCEPT ![d] = Tail(wire[d])] /\ wire[d] # <<>>
      BY <2>1 DEF Receive
    <3>2. Tail(wire[d]) \in Seq(Allowed(d))
      BY <1>4, <3>1
    <3> QED BY <3>1, <3>2
  <2>2. CASE Stall(d) \/ Drain(d)
    BY <2>2 DEF Stall, Drain
  <2>3. CASE Cut(d)
    <3>1. wire' = [wire EXCEPT ![d] = <<>>]
      BY <2>3 DEF Cut
    <3>2. <<>> \in Seq(Allowed(d))
      OBVIOUS
    <3> HIDE DEF Allowed
    <3> QED BY <3>1, <3>2
  <2>4. CASE Sweep(d)
    <3>1. wire' = wire \/ wire' = [wire EXCEPT ![d] = Append(wire[d], Control("EVICTED"))]
      BY <2>4 DEF Sweep
    <3>2. Append(wire[d], Control("EVICTED")) \in Seq(Allowed(d))
      BY <1>4, <1>5
    <3> QED BY <3>1, <3>2
  <2> QED BY <2>1, <2>2, <2>3, <2>4
<1>7. /\ DOMAIN wire' = Devices /\ wire' = [q \in Devices |-> wire'[q]]
      /\ \A q \in Devices : wire'[q] \in Seq(Allowed(q))
  BY <1>6 DEF HubInv, WiresAllowed
<1>8. UNCHANGED <<who, proven, seq, log>>
  BY <1>1
<1> QED BY <1>2, <1>3, <1>7, <1>8, Silently

LEMMA RestartKeeps ==
  ASSUME HubInv, Restart
  PROVE  HubInv'
<1>1. /\ seq' = 0 /\ log' = <<>> /\ held' = [ch \in ReplayChannels |-> {}]
      /\ wire' = [d \in Devices |-> <<>>] /\ open' = {} /\ fullSos' = fullSos
  BY DEF Restart, Remove
<1>2. LogCounts' /\ BuffersHold' /\ ClientsKnown'
  BY <1>1 DEF HubInv, LogCounts, BuffersHold, ClientsKnown
<1>3. WiresAllowed'
  BY <1>1 DEF WiresAllowed
<1> QED BY <1>2, <1>3 DEF HubInv

LEMMA HubAlways == CampusSpec => []HubInv
<1>1. HubInv /\ Next => HubInv'
  BY PublishKeeps, SendKeeps, HubConnectKeeps, SocketKeeps, RestartKeeps DEF Next, Step
<1>2. HubInv /\ UNCHANGED vars => HubInv'
  <2> SUFFICES ASSUME HubInv, UNCHANGED vars PROVE HubInv'
    OBVIOUS
  <2>1. /\ who' = who /\ proven' = proven /\ seq' = seq /\ log' = log /\ held' = held
        /\ open' = open /\ fullSos' = fullSos /\ wire' = wire
    BY DEF vars, hubVars, clientVars
  <2>2. BuffersHold' /\ ClientsKnown'
    BY <2>1 DEF HubInv, BuffersHold, ClientsKnown, SeesAll, IsLead
  <2>3. UNCHANGED <<who, proven, seq, log>>
    BY <2>1
  <2>4. /\ DOMAIN wire' = Devices /\ wire' = [q \in Devices |-> wire'[q]]
        /\ \A q \in Devices : wire'[q] \in Seq(Allowed(q))
    BY <2>1 DEF HubInv, WiresAllowed
  <2> QED BY <2>2, <2>3, <2>4, Silently
<1>3. [CampusNext]_campusVars => Next \/ UNCHANGED vars
  BY DEF CampusNext, HubMoves, LimitsMove, MapMoves, BountyMoves, campusVars
<1>4. HubInv /\ [CampusNext]_campusVars => HubInv'
  BY <1>1, <1>2, <1>3
<1> QED BY HubInit, <1>4, PTL DEF CampusSpec

\* Neither live nor on a resume is a device sent what only a lead, or only
\* another account, may see: src/src/common/sse/eventHub.ts.
THEOREM OnlyProvenAreSent == CampusSpec => []OnlyProvenSee
<1>1. HubInv => OnlyProvenSee
  <2> SUFFICES ASSUME HubInv, NEW d \in Devices, NEW n \in DOMAIN wire[d], wire[d][n].kind = "event"
               PROVE  MaySee(d, log[wire[d][n].id], wire[d][n].full)
    BY DEF OnlyProvenSee, MaySee, SeesAll
  <2>1. wire[d] \in Seq(Allowed(d))
    BY DEF HubInv, WiresAllowed
  <2>2. wire[d][n] \in Allowed(d)
    BY <2>1
  <2> QED BY <2>2 DEF Allowed
<1> QED BY <1>1, HubAlways, PTL

-----------------------------------------------------------------------------
(* The event hub: what a device that resumes has missed                    *)

\* What a frame in flight will make up for, and how far the frames go.
Brings(f, i) == \/ f.kind = "event" /\ f.id = i
                \/ f.kind = "RESYNC" /\ i \in 1..f.id
Carries(w, i) == \E n \in DOMAIN w : Brings(w[n], i)
Reaches(w, i) == \E n \in DOMAIN w : i <= w[n].id

\* Events that a device must not miss, from where on, and when it is due.
Wanted(d, e) == e.ch \in Asks[d] \cap ReplayChannels /\ MayJoin(d, e.ch) /\ e.aud = "ALL"
From(d, i) == IF mark[d] = None THEN wire[d] # <<>> /\ wire[d][1].id < i ELSE since[d] < i
Shown(d, i) == i <= mark[d] \/ d \in open \cap alive \/ Reaches(wire[d], i)

\* What a device has a claim to and is past, or will be told of as long as its
\* client stays, has come, is on its wire, or is excused.
Heard(d) ==
    \A i \in 1..seq : Wanted(d, log[i]) /\ From(d, i) /\ Shown(d, i) =>
       i \in got[d] \/ i \in excused[d] \/ Carries(wire[d], i)

\* A device that has shown a number has a place to count from; numbers it saw
\* of a former process are excused; a wire begins with the greeting that gives
\* a new device its place, and ends where its client does.
Placed(d) ==
    /\ mark[d] \in Nat \cup {None} /\ since[d] \in Nat \cup {None}
    /\ mark[d] = None <=> since[d] = None
Ahead(d) == \A i \in Nat : seq < i /\ i <= mark[d] => i \in excused[d]
Bounded(d) ==
    /\ d \notin alive => wire[d] = <<>>
    /\ \A n \in DOMAIN wire[d] :
          /\ wire[d][n].id <= seq
          /\ wire[d][n].kind = "EVICTED" => n = Len(wire[d]) /\ d \notin open
    /\ mark[d] = None /\ d \in alive => wire[d] # <<>>
    /\ mark[d] = None /\ wire[d] # <<>> => wire[d][1].kind = "CONNECTED"

\* The news of a gap puts a device's place forward, and no greeting overtakes it.
Told(d) ==
    /\ since[d] <= seq
    /\ \A n \in DOMAIN wire[d] : wire[d][n].kind = "RESYNC" =>
          /\ since[d] <= wire[d][n].id
          /\ \A m \in 1..n : wire[d][m].id <= wire[d][n].id
Followed(d) == Placed(d) /\ Ahead(d) /\ Bounded(d) /\ Told(d) /\ Heard(d)

\* A buffer holds every event of its channel above its drop mark.
BuffersCover ==
    /\ dropped \in [ReplayChannels -> Nat]
    /\ \A i \in 1..seq : log[i].ch \in ReplayChannels =>
          i \in held[log[i].ch] \/ i <= dropped[log[i].ch]
ClientsJoined ==
    /\ DOMAIN channels = Devices
    /\ \A d \in open : channels[d] = {ch \in Asks[d] : MayJoin(d, ch)}
DevicesKnown ==
    /\ DOMAIN mark = Devices /\ DOMAIN since = Devices
    /\ DOMAIN got = Devices /\ DOMAIN excused = Devices
ResumeInv ==
    /\ HubInv /\ BuffersCover /\ ClientsJoined /\ DevicesKnown
    /\ \A d \in Devices : Followed(d)

LEMMA ResumeInit == CampusInit => ResumeInv
<1> SUFFICES ASSUME Init, HubInv PROVE ResumeInv
  BY HubInit DEF CampusInit
<1>1. BuffersCover /\ ClientsJoined /\ DevicesKnown
  BY DEF Init, BuffersCover, ClientsJoined, DevicesKnown
<1>2. ASSUME NEW d \in Devices PROVE Followed(d)
  <2>1. mark[d] = None /\ since[d] = None /\ wire[d] = <<>> /\ seq = 0 /\ alive = {}
    BY DEF Init
  <2> QED BY <2>1 DEF Followed, Placed, Ahead, Bounded, Told, Heard, None
<1> QED BY <1>1, <1>2 DEF ResumeInv

\* Frames behind a wire, and in front of its rest.
LEMMA WireGrows ==
  ASSUME NEW S, NEW w \in Seq(S), NEW f, NEW x, x = Append(w, f), NEW i
  PROVE  /\ Carries(x, i) <=> Carries(w, i) \/ Brings(f, i)
         /\ Reaches(x, i) <=> Reaches(w, i) \/ i <= f.id
<1>1. DOMAIN x = 1..(Len(w) + 1) /\ DOMAIN w = 1..Len(w) /\ Len(w) \in Nat
  OBVIOUS
<1>2. x[Len(w) + 1] = f /\ \A n \in 1..Len(w) : x[n] = w[n]
  OBVIOUS
<1>3. \A n \in DOMAIN x : n \in DOMAIN w \/ n = Len(w) + 1
  BY <1>1
<1> QED BY <1>1, <1>2, <1>3 DEF Carries, Reaches

LEMMA WireShrinks ==
  ASSUME NEW S, NEW w \in Seq(S), w # <<>>, NEW x, x = Tail(w), NEW i
  PROVE  /\ Carries(w, i) <=> Carries(x, i) \/ Brings(w[1], i)
         /\ Reaches(x, i) => Reaches(w, i)
         /\ i <= w[1].id => Reaches(w, i)
<1>1. DOMAIN x = 1..(Len(w) - 1) /\ DOMAIN w = 1..Len(w) /\ Len(w) \in Nat \ {0}
  OBVIOUS
<1>2. \A n \in 1..(Len(w) - 1) : x[n] = w[n + 1]
  OBVIOUS
<1>3. \A n \in DOMAIN x : n + 1 \in DOMAIN w /\ x[n] = w[n + 1]
  BY <1>1, <1>2
<1>4. \A n \in DOMAIN w : n = 1 \/ (n - 1 \in DOMAIN x /\ x[n - 1] = w[n])
  <2>1. ASSUME NEW n \in DOMAIN w, n # 1 PROVE n - 1 \in DOMAIN x /\ x[n - 1] = w[n]
    <3>1. n - 1 \in 1..(Len(w) - 1) /\ (n - 1) + 1 = n
      BY <1>1, <2>1
    <3> QED BY <1>1, <1>2, <3>1
  <2> QED BY <2>1
<1>5. 1 \in DOMAIN w
  BY <1>1
<1> QED BY <1>3, <1>4, <1>5 DEF Carries, Reaches

LEMMA WireEmpty == \A i : ~Carries(<<>>, i) /\ ~Reaches(<<>>, i)
BY DEF Carries, Reaches

\* A wanted channel stays wanted, as who is who stays.
LEMMA WantedStays ==
  ASSUME UNCHANGED <<who, proven>>, NEW d, NEW e
  PROVE  Wanted(d, e)' <=> Wanted(d, e)
<1>1. who' = who /\ proven' = proven
  OBVIOUS
<1> QED BY <1>1 DEF Wanted, MayJoin, IsLead

\* An event is published: a device is sent it, or evicted for it, or has no

\* claim to it.
LEMMA FollowsPublish ==
  ASSUME ResumeInv, UNCHANGED <<who, proven, mark, since, got, alive>>, NEW e,
         log' = Append(log, e), seq' = seq + 1, open' \subseteq open, NEW d \in Devices,
         \/ /\ wire'[d] = wire[d] /\ excused'[d] = excused[d]
            /\ d \in open' \cap alive => ~Wanted(d, e)
         \/ /\ d \in open \cap alive /\ excused'[d] = excused[d]
            /\ \E f : /\ wire'[d] = Append(wire[d], f)
                      /\ f.kind = "event" /\ f.id = seq'
         \/ /\ d \in open \cap alive /\ d \notin open' /\ excused'[d] = excused[d] \cup {seq'}
            /\ \E f : /\ wire'[d] = Append(wire[d], f)
                      /\ f.kind = "EVICTED" /\ f.id = seq'
  PROVE  Followed(d)'
<1>1. /\ who' = who /\ proven' = proven /\ mark' = mark /\ since' = since
      /\ got' = got /\ alive' = alive
  OBVIOUS
<1>2. log \in Seq(Logged) /\ seq = Len(log) /\ seq \in Nat
  BY DEF ResumeInv, HubInv, LogCounts
<1>3. seq' \in Nat /\ log'[seq'] = e /\ \A i \in 1..seq' : i = seq' \/ (i \in 1..seq /\ log'[i] = log[i])
  BY <1>2
<1>4. wire[d] \in Seq(Allowed(d)) /\ Placed(d) /\ Ahead(d) /\ Bounded(d) /\ Told(d) /\ Heard(d)
  BY DEF ResumeInv, HubInv, WiresAllowed, Followed
<1>5. \/ wire'[d] = wire[d] /\ excused'[d] = excused[d] /\ (d \in open' \cap alive => ~Wanted(d, e))
      \/ \E f : /\ d \in open \cap alive /\ wire'[d] = Append(wire[d], f) /\ f.id = seq'
                /\ \/ f.kind = "event" /\ excused'[d] = excused[d]
                   \/ /\ f.kind = "EVICTED" /\ d \notin open'
                      /\ excused'[d] = excused[d] \cup {seq'}
  OBVIOUS
<1>6. Placed(d)'
  BY <1>1, <1>4 DEF Placed
<1>7. Ahead(d)'
  BY <1>1, <1>2, <1>4, <1>5 DEF Ahead
<1>11. since[d] <= seq'
  BY <1>2, <1>4 DEF Told, Placed, None
<1>8. CASE wire'[d] = wire[d] /\ excused'[d] = excused[d] /\ (d \in open' \cap alive => ~Wanted(d, e))
  <2>1. Bounded(d)'
    BY <1>1, <1>2, <1>4, <1>8 DEF Bounded, Allowed, Frames
  <2>2. ASSUME NEW i \in 1..seq', Wanted(d, log'[i]), From(d, i)', Shown(d, i)'
        PROVE  i \in got[d] \/ i \in excused[d] \/ Carries(wire[d], i)
    <3>1. From(d, i)
      BY <1>1, <1>8, <2>2 DEF From
    <3>2. CASE i \in 1..seq /\ log'[i] = log[i]
      <4>1. Shown(d, i)
        BY <1>1, <1>8, <2>2 DEF Shown
      <4> QED BY <1>4, <2>2, <3>1, <3>2, <4>1 DEF Heard
    <3>3. CASE i = seq'
      <4>1. ~Reaches(wire[d], i)
        BY <1>2, <1>4, <3>3 DEF Reaches, Bounded, Allowed, Frames
      <4>2. i <= mark[d]
        BY <1>1, <1>3, <1>8, <2>2, <3>3, <4>1 DEF Shown
      <4> QED BY <1>2, <1>4, <3>3, <4>2 DEF Ahead
    <3> QED BY <1>3, <3>2, <3>3
  <2>3. Heard(d)'
    BY <1>1, <1>8, <2>2, WantedStays DEF Heard
  <2>4. Told(d)'
    BY <1>1, <1>4, <1>8, <1>11 DEF Told
  <2> QED BY <1>6, <1>7, <2>1, <2>3, <2>4 DEF Followed
<1>9. ASSUME NEW f, d \in open \cap alive, wire'[d] = Append(wire[d], f), f.id = seq',
             \/ f.kind = "event" /\ excused'[d] = excused[d]
             \/ f.kind = "EVICTED" /\ d \notin open' /\ excused'[d] = excused[d] \cup {seq'}
      PROVE  Bounded(d)' /\ Told(d)' /\ Heard(d)'
  <2> DEFINE w == wire[d]
             x == wire'[d]
  <2>1. /\ DOMAIN x = 1..(Len(w) + 1) /\ DOMAIN w = 1..Len(w) /\ Len(w) \in Nat
        /\ x[Len(w) + 1] = f /\ Len(x) = Len(w) + 1 /\ \A n \in 1..Len(w) : x[n] = w[n]
    BY <1>4, <1>9
  <2>2. \A n \in 1..Len(w) : w[n].id <= seq /\ w[n].kind # "EVICTED" /\ w[n].id \in Nat
    BY <1>4, <1>9, <2>1 DEF Bounded, Allowed, Frames
  <2>3. mark[d] = None => w # <<>> /\ w[1].kind = "CONNECTED"
    BY <1>4, <1>9 DEF Bounded
  <2>4. \A i : /\ Carries(x, i) <=> Carries(w, i) \/ Brings(f, i)
               /\ Reaches(x, i) <=> Reaches(w, i) \/ i <= f.id
    BY <1>4, <1>9, WireGrows
  <2>5. x # <<>> /\ (w # <<>> => x[1] = w[1])
    BY <1>4, <2>1
  <2>8. d \in alive'
    BY <1>1, <1>9
  <2> HIDE DEF w, x
  <2>6. Bounded(d)'
    <3>1. \A n \in DOMAIN x : n = Len(x) \/ n \in 1..Len(w)
      BY <2>1
    <3>2. \A n \in DOMAIN x : x[n].id <= seq' /\ (x[n].kind = "EVICTED" => n = Len(x) /\ d \notin open')
      BY <1>2, <1>3, <1>9, <2>1, <2>2, <3>1
    <3>3. mark'[d] = None => x # <<>> /\ x[1].kind = "CONNECTED"
      BY <1>1, <2>3, <2>5
    <3> QED BY <2>8, <3>2, <3>3 DEF Bounded, x
  <2>7. ASSUME NEW i \in 1..seq', Wanted(d, log'[i]), From(d, i)'
        PROVE  i \in got[d] \/ i \in excused'[d] \/ Carries(x, i)
    <3>1. From(d, i)
      BY <1>1, <2>3, <2>5, <2>7 DEF From, w, x
    <3>2. CASE i \in 1..seq /\ log'[i] = log[i]
      <4>1. Shown(d, i)
        BY <1>9 DEF Shown
      <4>2. i \in got[d] \/ i \in excused[d] \/ Carries(w, i)
        BY <1>4, <2>7, <3>1, <3>2, <4>1 DEF Heard, w
      <4> QED BY <1>9, <2>4, <4>2
    <3>3. CASE i = seq'
      BY <1>9, <2>4, <3>3 DEF Brings
    <3> QED BY <1>3, <3>2, <3>3
  <2>9. Heard(d)'
    BY <1>1, <2>7, WantedStays DEF Heard, x
  <2>10. Told(d)'
    <3>1. ASSUME NEW n \in DOMAIN x, x[n].kind = "RESYNC"
          PROVE  since[d] <= x[n].id /\ \A m \in 1..n : x[m].id <= x[n].id
      <4>1. n \in 1..Len(w) /\ x[n] = w[n]
        BY <1>9, <2>1, <3>1
      <4>2. \A m \in 1..n : m \in 1..Len(w) /\ x[m] = w[m]
        BY <2>1, <4>1
      <4> QED BY <1>4, <2>1, <3>1, <4>1, <4>2 DEF Told, w
    <3> QED BY <1>1, <1>11, <3>1 DEF Told, x
  <2> QED BY <2>6, <2>9, <2>10
<1>10. Followed(d)'
  BY <1>5, <1>6, <1>7, <1>8, <1>9 DEF Followed
<1> QED BY <1>10

\* A finite set of numbers has a largest one.
LEMMA LargestIs ==
  ASSUME NEW S, S \subseteq Nat, IsFiniteSet(S), S # {}
  PROVE  Max(S) \in S /\ \A y \in S : y <= Max(S)
<1> DEFINE T == {m \in Nat : \A R \in SUBSET Nat : IsFiniteSet(R) /\ Cardinality(R) = m /\ R # {} =>
                    \E x \in R : \A y \in R : x >= y}
<1>1. 0 \in T
  BY FS_EmptySet
<1>2. ASSUME NEW m \in Nat, m \in T PROVE m + 1 \in T
  <2>1. ASSUME NEW R \in SUBSET Nat, IsFiniteSet(R), Cardinality(R) = m + 1, R # {}
        PROVE  \E x \in R : \A y \in R : x >= y
    <3>1. PICK z \in R : TRUE
      BY <2>1
    <3> DEFINE Q == R \ {z}
    <3>2. IsFiniteSet(Q) /\ Cardinality(Q) = Cardinality(R) - 1 /\ Q \in SUBSET Nat
      BY <2>1, FS_RemoveElement
    <3>5. Cardinality(Q) = m
      BY <2>1, <3>2
    <3>3. CASE Q = {}
      BY <3>3
    <3>4. CASE Q # {}
      <4>1. PICK x \in Q : \A y \in Q : x >= y
        BY <1>2, <3>2, <3>4, <3>5
      <4>2. CASE x >= z
        BY <4>1, <4>2
      <4>3. CASE z >= x
        BY <4>1, <4>3
      <4> QED BY <4>2, <4>3
    <3> QED BY <3>3, <3>4
  <2>2. m + 1 \in Nat
    OBVIOUS
  <2> QED BY <2>1, <2>2
<1>3. Nat \subseteq T
  <2> HIDE DEF T
  <2> QED BY <1>1, <1>2, Count
<1>4. Cardinality(S) \in Nat
  BY FS_CardinalityType
<1>5. \E x \in S : \A y \in S : x >= y
  BY <1>3, <1>4
<1>6. Max(S) = CHOOSE x \in S : \A y \in S : x >= y
  BY DEF Max
<1> QED BY <1>5, <1>6

\* The mark is above whatever was dropped, and was dropped before.
LEMMA MarkCovers ==
  ASSUME HubInv, BuffersCover, NEW ch \in ReplayChannels, NEW gone, NEW b \in Nat, gone \subseteq 0..b
  PROVE  /\ MarkAfter(ch, gone) \in Nat /\ dropped[ch] <= MarkAfter(ch, gone)
         /\ \A i \in gone : i <= MarkAfter(ch, gone)
<1>1. dropped[ch] \in Nat
  BY DEF BuffersCover
<1>2. CASE gone = {}
  BY <1>1, <1>2 DEF MarkAfter
<1>3. CASE gone # {}
  <2> DEFINE S == gone \cup {dropped[ch]}
  <2>1. IsFiniteSet(0..b)
    BY FS_Interval
  <2>5. IsFiniteSet(gone)
    BY <2>1, FS_Subset
  <2>6. IsFiniteSet(S)
    BY <2>5, FS_AddElement
  <2>7. gone \subseteq Nat
    OBVIOUS
  <2>2. S \subseteq Nat /\ S # {} /\ dropped[ch] \in S /\ gone \subseteq S
    BY <1>1, <2>7
  <2>3. MarkAfter(ch, gone) = Max(S)
    BY <1>3 DEF MarkAfter
  <2> HIDE DEF S
  <2>4. Max(S) \in S /\ \A y \in S : y <= Max(S)
    BY <2>2, <2>6, LargestIs
  <2> QED BY <2>2, <2>3, <2>4
<1> QED BY <1>2, <1>3

\* Pruning takes away events of the buffer and no others.
LEMMA PrunedIsHeld ==
  ASSUME NEW S, NEW gone \in Pruned(S)
  PROVE  gone \subseteq S
<1> DEFINE N == (IF Cardinality(S) > Keep THEN Cardinality(S) - Keep ELSE 0)..Cardinality(S)
<1>1. PICK n \in N : gone = Oldest(S, n)
  BY DEF Pruned
<1> QED BY <1>1 DEF Oldest

\* Clients stay those that joined.
LEMMA JoinedStays ==
  ASSUME ClientsJoined, UNCHANGED <<who, proven, channels>>, open' \subseteq open
  PROVE  ClientsJoined'
<1>1. who' = who /\ proven' = proven /\ channels' = channels
  OBVIOUS
<1> QED BY <1>1 DEF ClientsJoined, MayJoin, IsLead

LEMMA PublishResumes ==
  ASSUME ResumeInv, UNCHANGED <<who, proven>>, NEW ch \in ReplayChannels, NEW aud \in Audiences(ch),
         Publish(ch, aud)
  PROVE  ResumeInv'
<1> DEFINE e == [ch |-> ch, aud |-> aud]
           D == {d \in open : ch \in channels[d] /\ AudienceReaches(aud, d)}
           full == (D \cap alive) \cap stalled
           bye == [id |-> seq', kind |-> "EVICTED", full |-> FALSE]
           F(d) == Frame(d, seq', ch, fullSos[d])
<1>1. /\ seq' = seq + 1 /\ log' = Append(log, e) /\ channels' = channels
      /\ UNCHANGED <<mark, since, got, alive>>
  BY DEF Publish, deviceVars, WriteTo, Remove
<1>2. /\ open' = open \ ((D \ alive) \cup full)
      /\ wire' = [d \in Devices |-> IF d \notin D \cap alive THEN wire[d]
                                    ELSE Append(wire[d], IF d \in full THEN bye ELSE F(d))]
      /\ excused' = [d \in Devices |-> IF d \in full THEN excused[d] \cup {seq'} ELSE excused[d]]
  BY DEF Publish, WriteTo, Remove
<1>3. e.ch = ch /\ e.aud = aud /\ bye.kind = "EVICTED" /\ bye.id = seq'
      /\ \A d : F(d).kind = "event" /\ F(d).id = seq'
  BY DEF Frame, Event
<1>4. ASSUME NEW d \in open, Wanted(d, e) PROVE d \in D
  <2>1. ch \in Asks[d] /\ MayJoin(d, ch) /\ aud = "ALL"
    BY <1>3, <1>4 DEF Wanted
  <2> QED BY <2>1 DEF ResumeInv, ClientsJoined, AudienceReaches
<1>5. PICK gone \in Pruned(held[ch] \cup {seq'}) :
         /\ seq' \notin gone
         /\ held' = [held EXCEPT ![ch] = (held[ch] \cup {seq'}) \ gone]
         /\ dropped' = [dropped EXCEPT ![ch] = MarkAfter(ch, gone)]
  BY DEF Publish
<1>6. log \in Seq(Logged) /\ seq = Len(log) /\ seq \in Nat
  BY DEF ResumeInv, HubInv, LogCounts
<1>7. seq' \in Nat /\ log'[seq'] = e /\ \A i \in 1..seq' : i = seq' \/ (i \in 1..seq /\ log'[i] = log[i])
  BY <1>1, <1>6
<1> HIDE DEF e, bye, F
<1>8. BuffersCover'
  <2>1. held[ch] \subseteq 0..seq'
    BY <1>1, <1>6 DEF ResumeInv, HubInv, BuffersHold
  <2>2. gone \subseteq held[ch] \cup {seq'}
    BY PrunedIsHeld
  <2>3. gone \subseteq 0..seq'
    BY <1>7, <2>1, <2>2
  <2>4. /\ MarkAfter(ch, gone) \in Nat /\ dropped[ch] <= MarkAfter(ch, gone)
        /\ \A i \in gone : i <= MarkAfter(ch, gone)
    BY <1>7, <2>3, MarkCovers DEF ResumeInv
  <2>5. held \in [ReplayChannels -> SUBSET Nat] /\ dropped \in [ReplayChannels -> Nat]
    BY DEF ResumeInv, HubInv, BuffersHold, BuffersCover
  <2>6. ASSUME NEW i \in 1..seq', log'[i].ch \in ReplayChannels
        PROVE  i \in held'[log'[i].ch] \/ i <= dropped'[log'[i].ch]
    <3>1. CASE i = seq'
      BY <1>3, <1>5, <1>7, <2>5, <3>1
    <3>2. CASE i \in 1..seq /\ log'[i] = log[i]
      <4>1. i \in held[log[i].ch] \/ i <= dropped[log[i].ch]
        BY <2>6, <3>2 DEF ResumeInv, BuffersCover
      <4>2. CASE log[i].ch = ch
        <5>1. held'[ch] = (held[ch] \cup {seq'}) \ gone /\ dropped'[ch] = MarkAfter(ch, gone)
          BY <1>5, <2>5
        <5>2. i \in held[ch] => i \in held'[ch] \/ i <= dropped'[ch]
          BY <2>4, <5>1
        <5>3. i <= dropped[ch] => i <= dropped'[ch]
          BY <2>4, <2>5, <5>1
        <5> QED BY <3>2, <4>1, <4>2, <5>2, <5>3
      <4>3. CASE log[i].ch # ch
        BY <1>5, <2>5, <2>6, <3>2, <4>1, <4>3
      <4> QED BY <4>2, <4>3
    <3> QED BY <1>7, <3>1, <3>2
  <2>7. dropped' \in [ReplayChannels -> Nat]
    BY <1>5, <2>4, <2>5
  <2> QED BY <2>6, <2>7 DEF BuffersCover
<1>9. ASSUME NEW d \in Devices PROVE Followed(d)'
  <2>1. CASE d \notin D \cap alive
    <3>1. wire'[d] = wire[d] /\ excused'[d] = excused[d]
      BY <1>2, <2>1
    <3>2. d \in open' \cap alive => ~Wanted(d, e)
      BY <1>2, <1>4, <2>1
    <3> QED BY <1>1, <1>2, <3>1, <3>2, FollowsPublish
  <2>2. CASE d \in D \cap alive /\ d \in full
    <3>1. wire'[d] = Append(wire[d], bye) /\ excused'[d] = excused[d] \cup {seq'}
      BY <1>2, <2>2
    <3>2. d \notin open' /\ d \in open \cap alive
      BY <1>2, <2>2
    <3> QED BY <1>1, <1>2, <1>3, <3>1, <3>2, FollowsPublish
  <2>3. CASE d \in D \cap alive /\ d \notin full
    <3>1. wire'[d] = Append(wire[d], F(d)) /\ excused'[d] = excused[d]
      BY <1>2, <2>3
    <3>2. d \in open \cap alive
      BY <2>3
    <3> QED BY <1>1, <1>2, <1>3, <3>1, <3>2, FollowsPublish
  <2> QED BY <2>1, <2>2, <2>3
<1>10. ClientsJoined' /\ DevicesKnown'
  <2>1. open' \subseteq open
    BY <1>2
  <2>2. ClientsJoined'
    BY <1>1, <2>1, JoinedStays DEF ResumeInv
  <2> QED BY <1>1, <1>2, <2>2 DEF ResumeInv, DevicesKnown
<1>11. HubInv'
  BY PublishKeeps DEF ResumeInv
<1> QED BY <1>8, <1>9, <1>10, <1>11 DEF ResumeInv

LEMMA SendResumes ==
  ASSUME ResumeInv, UNCHANGED <<who, proven>>, NEW a \in Accounts, SendToAccount(a)
  PROVE  ResumeInv'
<1> DEFINE e == [ch |-> "me", aud |-> a]
           D == {d \in open : d \in proven /\ who[d] = a /\ "me" \in channels[d]}
           full == (D \cap alive) \cap stalled
           bye == [id |-> seq', kind |-> "EVICTED", full |-> FALSE]
           note == [id |-> seq', kind |-> "event", full |-> TRUE]
<1>1. /\ seq' = seq + 1 /\ log' = Append(log, e) /\ channels' = channels
      /\ UNCHANGED <<mark, since, got, alive>> /\ held' = held /\ dropped' = dropped
  BY DEF SendToAccount, deviceVars, WriteTo, Remove
<1>2. /\ open' = open \ ((D \ alive) \cup full)
      /\ wire' = [d \in Devices |-> IF d \notin D \cap alive THEN wire[d]
                                    ELSE Append(wire[d], IF d \in full THEN bye ELSE note)]
      /\ excused' = [d \in Devices |-> IF d \in full THEN excused[d] \cup {seq'} ELSE excused[d]]
  BY DEF SendToAccount, WriteTo, Remove, Event
<1>3. /\ e.ch = "me" /\ bye.kind = "EVICTED" /\ bye.id = seq'
      /\ note.kind = "event" /\ note.id = seq'
  OBVIOUS
<1>4. e.ch \notin ReplayChannels /\ \A d : ~Wanted(d, e)
  BY <1>3 DEF Wanted, ReplayChannels
<1>5. log \in Seq(Logged) /\ seq = Len(log) /\ seq \in Nat
  BY DEF ResumeInv, HubInv, LogCounts
<1>6. log'[seq'] = e /\ \A i \in 1..seq' : i = seq' \/ (i \in 1..seq /\ log'[i] = log[i])
  BY <1>1, <1>5
<1> HIDE DEF e, bye, note
<1>7. BuffersCover'
  BY <1>1, <1>4, <1>6 DEF ResumeInv, BuffersCover
<1>8. ASSUME NEW d \in Devices PROVE Followed(d)'
  <2>1. CASE d \notin D \cap alive
    <3>1. wire'[d] = wire[d] /\ excused'[d] = excused[d]
      BY <1>2, <2>1
    <3> QED BY <1>1, <1>2, <1>4, <3>1, FollowsPublish
  <2>2. CASE d \in D \cap alive /\ d \in full
    <3>1. wire'[d] = Append(wire[d], bye) /\ excused'[d] = excused[d] \cup {seq'}
      BY <1>2, <2>2
    <3>2. d \notin open' /\ d \in open \cap alive
      BY <1>2, <2>2
    <3> QED BY <1>1, <1>2, <1>3, <3>1, <3>2, FollowsPublish
  <2>3. CASE d \in D \cap alive /\ d \notin full
    <3>1. wire'[d] = Append(wire[d], note) /\ excused'[d] = excused[d]
      BY <1>2, <2>3
    <3>2. d \in open \cap alive
      BY <2>3
    <3> QED BY <1>1, <1>2, <1>3, <3>1, <3>2, FollowsPublish
  <2> QED BY <2>1, <2>2, <2>3
<1>9. ClientsJoined' /\ DevicesKnown'
  <2>1. open' \subseteq open
    BY <1>2
  <2>2. ClientsJoined'
    BY <1>1, <2>1, JoinedStays DEF ResumeInv
  <2> QED BY <1>1, <1>2, <2>2 DEF ResumeInv, DevicesKnown
<1>10. HubInv'
  BY SendKeeps DEF ResumeInv
<1> QED BY <1>7, <1>8, <1>9, <1>10 DEF ResumeInv

\* What nothing is done to stays as it is.
LEMMA OthersStay ==
  ASSUME UNCHANGED <<who, proven, seq, log>>, NEW q, Followed(q),
         mark'[q] = mark[q], since'[q] = since[q], got'[q] = got[q], wire'[q] = wire[q],
         excused'[q] = excused[q], q \in open' <=> q \in open, q \in alive' <=> q \in alive
  PROVE  Followed(q)'
<1>1. seq' = seq /\ log' = log
  OBVIOUS
<1>2. Placed(q)' /\ Ahead(q)' /\ Bounded(q)' /\ Told(q)'
  BY <1>1 DEF Followed, Placed, Ahead, Bounded, Told
<1>3. \A i : (From(q, i)' => From(q, i)) /\ (Shown(q, i)' => Shown(q, i))
  BY DEF From, Shown
<1>4. Heard(q)'
  BY <1>1, <1>3, WantedStays DEF Followed, Heard
<1> QED BY <1>2, <1>4 DEF Followed

\* A step that publishes nothing and concerns one device.
LEMMA OneFollows ==
  ASSUME ResumeInv, UNCHANGED <<who, proven, seq, log, held, dropped, channels>>, HubInv',
         NEW d \in Devices, Followed(d)', DevicesKnown', open' \subseteq open,
         \A q \in Devices \ {d} :
            /\ mark'[q] = mark[q] /\ since'[q] = since[q] /\ got'[q] = got[q]
            /\ wire'[q] = wire[q] /\ excused'[q] = excused[q]
            /\ (q \in open' <=> q \in open) /\ (q \in alive' <=> q \in alive)
  PROVE  ResumeInv'
<1>1. UNCHANGED <<who, proven, seq, log>> /\ UNCHANGED <<who, proven, channels>>
  OBVIOUS
<1>2. seq' = seq /\ log' = log /\ held' = held /\ dropped' = dropped
  OBVIOUS
<1>3. BuffersCover'
  BY <1>2 DEF ResumeInv, BuffersCover
<1>4. ClientsJoined'
  BY <1>1, JoinedStays DEF ResumeInv
<1>5. \A q \in Devices : Followed(q)'
  <2>1. ASSUME NEW q \in Devices, q # d PROVE Followed(q)'
    <3>1. Followed(q)
      BY DEF ResumeInv
    <3> QED BY <1>1, <2>1, <3>1, OthersStay
  <2> QED BY <2>1
<1> QED BY <1>3, <1>4, <1>5 DEF ResumeInv

LEMMA ReceiveResumes ==
  ASSUME ResumeInv, UNCHANGED <<who, proven>>, NEW d \in Devices, Receive(d)
  PROVE  ResumeInv'
<1> DEFINE w == wire[d]
           f == w[1]
           x == Tail(w)
<1>1. /\ w # <<>> /\ wire' = [wire EXCEPT ![d] = x]
      /\ mark' = [mark EXCEPT ![d] = f.id]
      /\ got' = [got EXCEPT ![d] = IF f.kind = "event" THEN got[d] \cup {f.id} ELSE got[d]]
      /\ since' = [since EXCEPT ![d] = IF f.kind = "RESYNC" \/ (f.kind = "CONNECTED" /\ mark[d] = None)
                                       THEN f.id ELSE since[d]]
      /\ excused' = [excused EXCEPT ![d] = IF f.kind = "RESYNC" THEN excused[d] \ (1..f.id) ELSE excused[d]]
      /\ alive' = IF f.kind = "EVICTED" THEN alive \ {d} ELSE alive
      /\ UNCHANGED <<seq, log, held, dropped, open, channels>>
  BY DEF Receive, hubVars, clientVars
<1>2. w \in Seq(Allowed(d)) /\ DOMAIN wire = Devices /\ seq \in Nat
  BY DEF ResumeInv, HubInv, WiresAllowed, LogCounts
<1>3. Placed(d) /\ Ahead(d) /\ Bounded(d) /\ Told(d) /\ Heard(d)
  BY DEF ResumeInv, Followed
<1>4. 1 \in DOMAIN w /\ DOMAIN w = 1..Len(w) /\ Len(w) \in Nat \ {0}
      /\ DOMAIN x = 1..(Len(w) - 1) /\ Len(x) = Len(w) - 1
      /\ \A n \in 1..(Len(w) - 1) : x[n] = w[n + 1]
  BY <1>1, <1>2
<1>5. f.id \in Nat /\ f.id <= seq /\ \A n \in DOMAIN w : w[n].id \in Nat
  BY <1>2, <1>3, <1>4 DEF Bounded, Allowed, Frames
<1>6. \A i : /\ Carries(w, i) <=> Carries(x, i) \/ Brings(f, i)
             /\ Reaches(x, i) => Reaches(w, i)
             /\ i <= f.id => Reaches(w, i)
  BY <1>1, <1>2, WireShrinks
<1>7. /\ mark'[d] = f.id /\ wire'[d] = x
      /\ got'[d] = (IF f.kind = "event" THEN got[d] \cup {f.id} ELSE got[d])
      /\ since'[d] = (IF f.kind = "RESYNC" \/ (f.kind = "CONNECTED" /\ mark[d] = None) THEN f.id ELSE since[d])
      /\ excused'[d] = (IF f.kind = "RESYNC" THEN excused[d] \ (1..f.id) ELSE excused[d])
  BY <1>1, <1>2 DEF ResumeInv, DevicesKnown
<1>8. seq' = seq /\ log' = log /\ open' = open
  BY <1>1
<1>9. mark[d] = None => f.kind = "CONNECTED"
  BY <1>1, <1>3 DEF Bounded
<1>10. d \in alive
  BY <1>1, <1>3 DEF Bounded
<1>11. f.kind = "EVICTED" => Len(w) = 1 /\ x = <<>>
  BY <1>2, <1>3, <1>4 DEF Bounded
<1> HIDE DEF w, f, x
<1>12. Placed(d)'
  BY <1>3, <1>5, <1>7, <1>9 DEF Placed, None
<1>13. Ahead(d)'
  BY <1>2, <1>5, <1>7, <1>8 DEF Ahead
<1>14. Bounded(d)'
  <2>1. d \notin alive' => x = <<>>
    BY <1>1, <1>10, <1>11
  <2>2. ASSUME NEW n \in DOMAIN x
        PROVE  x[n].id <= seq /\ (x[n].kind = "EVICTED" => n = Len(x) /\ d \notin open)
    <3>1. n + 1 \in DOMAIN w /\ x[n] = w[n + 1]
      BY <1>4
    <3> QED BY <1>3, <1>4, <3>1 DEF Bounded, w
  <2>3. mark'[d] # None
    BY <1>5, <1>7 DEF None
  <2> QED BY <1>7, <1>8, <2>1, <2>2, <2>3 DEF Bounded
<1>15. Told(d)'
  <2>1. since'[d] <= seq
    BY <1>3, <1>5, <1>7 DEF Told
  <2>2. ASSUME NEW n \in DOMAIN x, x[n].kind = "RESYNC"
        PROVE  since'[d] <= x[n].id /\ \A m \in 1..n : x[m].id <= x[n].id
    <3>1. n + 1 \in DOMAIN w /\ x[n] = w[n + 1] /\ 1 \in 1..(n + 1)
          /\ \A m \in 1..n : m + 1 \in 1..(n + 1) /\ x[m] = w[m + 1]
      BY <1>4
    <3>2. since[d] <= w[n + 1].id /\ \A m \in 1..(n + 1) : w[m].id <= w[n + 1].id
      BY <1>3, <2>2, <3>1 DEF Told, w
    <3>3. f.id <= x[n].id /\ \A m \in 1..n : x[m].id <= x[n].id
      BY <3>1, <3>2 DEF f
    <3> QED BY <1>7, <3>1, <3>2, <3>3
  <2> QED BY <1>7, <1>8, <2>1, <2>2 DEF Told
<1>16. Heard(d)'
  <2>1. ASSUME NEW i \in 1..seq, Wanted(d, log[i]), From(d, i)', Shown(d, i)'
        PROVE  i \in got'[d] \/ i \in excused'[d] \/ Carries(x, i)
    <3>1. since'[d] < i
      BY <1>5, <1>7, <2>1 DEF From, None
    <3>2. From(d, i)
      <4>1. CASE mark[d] = None
        <5>1. since'[d] = f.id
          BY <1>7, <1>9, <4>1
        <5> QED BY <1>1, <3>1, <4>1, <5>1 DEF From, w, f
      <4>2. CASE mark[d] # None
        <5>1. since[d] <= since'[d]
          <6>1. CASE f.kind = "RESYNC"
            <7>1. since[d] <= f.id
              BY <1>3, <1>4, <6>1 DEF Told, w, f
            <7> QED BY <1>7, <6>1, <7>1
          <6>2. CASE f.kind # "RESYNC"
            BY <1>3, <1>7, <4>2, <6>2 DEF Placed, None
          <6> QED BY <6>1, <6>2
        <5>2. since[d] \in Int /\ since'[d] \in Int
          BY <1>3, <1>12 DEF Placed, None
        <5> QED BY <3>1, <4>2, <5>1, <5>2 DEF From
      <4> QED BY <4>1, <4>2
    <3>3. Shown(d, i)
      BY <1>1, <1>6, <1>7, <1>8, <2>1 DEF Shown, w
    <3>4. i \in got[d] \/ i \in excused[d] \/ Carries(w, i)
      BY <1>3, <2>1, <3>2, <3>3 DEF Heard, w
    <3>5. i \in got[d] => i \in got'[d]
      BY <1>7
    <3>6. f.kind = "RESYNC" => ~(i \in 1..f.id)
      BY <1>5, <1>7, <3>1
    <3>7. i \in excused[d] => i \in excused'[d]
      BY <1>7, <3>6
    <3>8. Brings(f, i) => i \in got'[d]
      BY <1>7, <3>6 DEF Brings
    <3> QED BY <1>6, <3>4, <3>5, <3>7, <3>8
  <2> QED BY <1>7, <1>8, <2>1, WantedStays DEF Heard
<1>17. HubInv'
  BY SocketKeeps DEF ResumeInv
<1>18. DevicesKnown'
  BY <1>1 DEF ResumeInv, DevicesKnown
<1>19. Followed(d)'
  BY <1>12, <1>13, <1>14, <1>15, <1>16 DEF Followed
<1>20. ASSUME NEW q \in Devices \ {d}
       PROVE  /\ mark'[q] = mark[q] /\ since'[q] = since[q] /\ got'[q] = got[q]
              /\ wire'[q] = wire[q] /\ excused'[q] = excused[q]
              /\ (q \in open' <=> q \in open) /\ (q \in alive' <=> q \in alive)
  BY <1>1, <1>2 DEF ResumeInv, DevicesKnown
<1>21. UNCHANGED <<who, proven, seq, log, held, dropped, channels>> /\ open' \subseteq open
  BY <1>1
<1> QED BY <1>17, <1>18, <1>19, <1>20, <1>21, OneFollows

\* What a wire carries is coming.
LEMMA CarriedIsComing ==
  ASSUME NEW d, NEW i, Carries(wire[d], i)
  PROVE  i \in Coming(d)
<1>1. PICK n \in DOMAIN wire[d] : Brings(wire[d][n], i)
  BY DEF Carries
<1> DEFINE f == wire[d][n]
<1>2. CASE f.kind = "event"
  BY <1>1, <1>2 DEF Coming, Brings
<1>3. CASE f.kind = "RESYNC"
  BY <1>1, <1>3 DEF Coming, Brings
<1> QED BY <1>1, <1>2, <1>3 DEF Brings

LEMMA StallResumes ==
  ASSUME ResumeInv, UNCHANGED <<who, proven>>, NEW d \in Devices, Stall(d) \/ Drain(d)
  PROVE  ResumeInv'
<1>1. UNCHANGED <<seq, log, held, dropped, open, channels, alive, wire, mark, got, since, excused>>
  BY DEF Stall, Drain, hubVars, clientVars, deviceVars
<1>2. HubInv'
  BY SocketKeeps DEF ResumeInv
<1>3. Followed(d)
  BY DEF ResumeInv
<1>4. Followed(d)'
  BY <1>1, <1>3, OthersStay
<1>5. DevicesKnown'
  BY <1>1 DEF ResumeInv, DevicesKnown
<1> QED BY <1>1, <1>2, <1>4, <1>5, OneFollows

LEMMA CutResumes ==
  ASSUME ResumeInv, UNCHANGED <<who, proven>>, NEW d \in Devices, Cut(d)
  PROVE  ResumeInv'
<1>1. /\ UNCHANGED <<seq, log, held, dropped, open, channels, mark, got, since>>
      /\ alive' = alive \ {d} /\ wire' = [wire EXCEPT ![d] = <<>>]
      /\ excused' = [excused EXCEPT ![d] = excused[d] \cup Overtaken(d)]
  BY DEF Cut, hubVars, clientVars, deviceVars
<1>2. DOMAIN wire = Devices /\ DOMAIN excused = Devices
  BY DEF ResumeInv, HubInv, WiresAllowed, DevicesKnown
<1>3. /\ mark' = mark /\ since' = since /\ got' = got /\ seq' = seq /\ log' = log
      /\ wire'[d] = <<>> /\ excused'[d] = excused[d] \cup Overtaken(d) /\ d \notin alive'
  BY <1>1, <1>2
<1>4. Placed(d) /\ Ahead(d) /\ Bounded(d) /\ Told(d) /\ Heard(d)
  BY DEF ResumeInv, Followed
<1>5. Placed(d)' /\ Ahead(d)' /\ Bounded(d)' /\ Told(d)'
  BY <1>3, <1>4 DEF Placed, Ahead, Bounded, Told
<1>6. ASSUME NEW i \in 1..seq, Wanted(d, log[i]), From(d, i)', Shown(d, i)'
      PROVE  i \in got[d] \/ i \in excused'[d]
  <2>1. From(d, i) /\ i <= mark[d]
    BY <1>3, <1>6, WireEmpty DEF From, Shown
  <2>2. i \in got[d] \/ i \in excused[d] \/ Carries(wire[d], i)
    BY <1>4, <1>6, <2>1 DEF Heard, Shown
  <2>3. Carries(wire[d], i) => i \in Overtaken(d)
    BY <2>1, CarriedIsComing DEF Overtaken
  <2> QED BY <1>3, <2>2, <2>3
<1>7. Heard(d)'
  BY <1>3, <1>6, WantedStays DEF Heard
<1>8. HubInv'
  BY SocketKeeps DEF ResumeInv
<1>9. DevicesKnown'
  BY <1>1 DEF ResumeInv, DevicesKnown
<1>10. Followed(d)'
  BY <1>5, <1>7 DEF Followed
<1>11. ASSUME NEW q \in Devices \ {d}
       PROVE  /\ mark'[q] = mark[q] /\ since'[q] = since[q] /\ got'[q] = got[q]
              /\ wire'[q] = wire[q] /\ excused'[q] = excused[q]
              /\ (q \in open' <=> q \in open) /\ (q \in alive' <=> q \in alive)
  BY <1>1, <1>2
<1>12. UNCHANGED <<who, proven, seq, log, held, dropped, channels>> /\ open' \subseteq open
  BY <1>1
<1> QED BY <1>8, <1>9, <1>10, <1>11, <1>12, OneFollows

LEMMA SweepResumes ==
  ASSUME ResumeInv, UNCHANGED <<who, proven>>, NEW d \in Devices, Sweep(d)
  PROVE  ResumeInv'
<1> DEFINE w == wire[d]
           x == wire'[d]
           v == Control("EVICTED")
<1>1. /\ UNCHANGED <<seq, log, held, dropped, channels, alive, mark, got, since, excused>>
      /\ open' = open \ {d} /\ d \in open
      /\ wire' = IF d \in alive THEN [wire EXCEPT ![d] = Append(w, v)] ELSE wire
  BY DEF Sweep, Remove, hubVars, deviceVars
<1>2. DOMAIN wire = Devices /\ w \in Seq(Allowed(d)) /\ seq \in Nat
  BY DEF ResumeInv, HubInv, WiresAllowed, LogCounts
<1>3. /\ mark' = mark /\ since' = since /\ got' = got /\ seq' = seq /\ log' = log
      /\ alive' = alive /\ excused' = excused /\ d \notin open'
  BY <1>1
<1>4. Placed(d) /\ Ahead(d) /\ Bounded(d) /\ Told(d) /\ Heard(d)
  BY DEF ResumeInv, Followed
<1>5. v.kind = "EVICTED" /\ v.id = seq
  BY DEF Control
<1>6. Placed(d)' /\ Ahead(d)'
  BY <1>3, <1>4 DEF Placed, Ahead
<1>7. ASSUME d \notin alive PROVE Followed(d)'
  <2>1. x = w
    BY <1>1, <1>7
  <2>2. Bounded(d)' /\ Told(d)'
    BY <1>3, <1>4, <2>1 DEF Bounded, Told
  <2>3. \A i : (From(d, i)' => From(d, i)) /\ (Shown(d, i)' => Shown(d, i))
    BY <1>3, <1>7, <2>1 DEF From, Shown
  <2>4. Heard(d)'
    BY <1>3, <1>4, <2>1, <2>3, WantedStays DEF Heard
  <2> QED BY <1>6, <2>2, <2>4 DEF Followed
<1>8. ASSUME d \in alive PROVE Followed(d)'
  <2>1. x = Append(w, v)
    BY <1>1, <1>2, <1>8
  <2>2. /\ DOMAIN x = 1..(Len(w) + 1) /\ DOMAIN w = 1..Len(w) /\ Len(w) \in Nat
        /\ x[Len(w) + 1] = v /\ Len(x) = Len(w) + 1 /\ \A n \in 1..Len(w) : x[n] = w[n]
    BY <1>2, <2>1
  <2>3. \A n \in 1..Len(w) : w[n].id <= seq /\ w[n].kind # "EVICTED"
    BY <1>1, <1>4, <2>2 DEF Bounded
  <2>4. mark[d] = None => w # <<>> /\ w[1].kind = "CONNECTED"
    BY <1>4, <1>8 DEF Bounded
  <2>5. x # <<>> /\ (w # <<>> => x[1] = w[1])
    BY <1>2, <2>1, <2>2
  <2>6. \A i : Carries(w, i) => Carries(x, i)
    BY <1>2, <2>1, WireGrows
  <2>7. \A n \in DOMAIN x : n = Len(x) \/ n \in 1..Len(w)
    BY <2>2
  <2> HIDE DEF w, x, v
  <2>8. Bounded(d)'
    <3>1. \A n \in DOMAIN x : x[n].id <= seq /\ (x[n].kind = "EVICTED" => n = Len(x) /\ d \notin open')
      BY <1>2, <1>3, <1>5, <2>2, <2>3, <2>7
    <3>2. mark[d] = None => x[1].kind = "CONNECTED"
      BY <2>4, <2>5
    <3> QED BY <1>3, <1>8, <2>5, <3>1, <3>2 DEF Bounded, x
  <2>9. Told(d)'
    <3>1. ASSUME NEW n \in DOMAIN x, x[n].kind = "RESYNC"
          PROVE  since[d] <= x[n].id /\ \A m \in 1..n : x[m].id <= x[n].id
      <4>1. n \in 1..Len(w) /\ x[n] = w[n]
        BY <1>5, <2>2, <2>7, <3>1
      <4>2. \A m \in 1..n : m \in 1..Len(w) /\ x[m] = w[m]
        BY <2>2, <4>1
      <4> QED BY <1>4, <2>2, <3>1, <4>1, <4>2 DEF Told, w
    <3>2. since[d] <= seq
      BY <1>4 DEF Told
    <3> QED BY <1>3, <3>1, <3>2 DEF Told, x
  <2>10. ASSUME NEW i \in 1..seq, Wanted(d, log[i]), From(d, i)'
         PROVE  i \in got[d] \/ i \in excused[d] \/ Carries(x, i)
    <3>1. From(d, i) /\ Shown(d, i)
      BY <1>1, <1>3, <1>8, <2>4, <2>5, <2>10 DEF From, Shown, w, x
    <3> QED BY <1>4, <2>6, <2>10, <3>1 DEF Heard, w
  <2>11. Heard(d)'
    BY <1>3, <2>10, WantedStays DEF Heard, x
  <2> QED BY <1>6, <2>8, <2>9, <2>11 DEF Followed
<1>9. HubInv'
  BY SocketKeeps DEF ResumeInv
<1>10. DevicesKnown'
  BY <1>1 DEF ResumeInv, DevicesKnown
<1>11. ASSUME NEW q \in Devices \ {d}
       PROVE  /\ mark'[q] = mark[q] /\ since'[q] = since[q] /\ got'[q] = got[q]
              /\ wire'[q] = wire[q] /\ excused'[q] = excused[q]
              /\ (q \in open' <=> q \in open) /\ (q \in alive' <=> q \in alive)
  BY <1>1, <1>2
<1>12. UNCHANGED <<who, proven, seq, log, held, dropped, channels>> /\ open' \subseteq open
  BY <1>1
<1>13. Followed(d)'
  BY <1>7, <1>8
<1> QED BY <1>9, <1>10, <1>11, <1>12, <1>13, OneFollows

LEMMA RestartResumes ==
  ASSUME ResumeInv, UNCHANGED <<who, proven>>, Restart
  PROVE  ResumeInv'
<1>1. /\ seq' = 0 /\ dropped' = [ch \in ReplayChannels |-> 0] /\ open' = {} /\ alive' = {}
      /\ channels' = channels /\ mark' = mark
      /\ wire' = [d \in Devices |-> <<>>] /\ got' = [d \in Devices |-> {}]
      /\ since' = [d \in Devices |-> IF mark[d] = None THEN None ELSE 0]
      /\ excused' = [d \in Devices |-> IF mark[d] = None THEN {} ELSE 1..mark[d]]
  BY DEF Restart, Remove
<1>2. BuffersCover' /\ ClientsJoined' /\ DevicesKnown'
  BY <1>1 DEF ResumeInv, BuffersCover, ClientsJoined, DevicesKnown
<1>3. HubInv'
  BY RestartKeeps DEF ResumeInv
<1>4. ASSUME NEW d \in Devices PROVE Followed(d)'
  <2>1. /\ wire'[d] = <<>> /\ since'[d] = (IF mark[d] = None THEN None ELSE 0)
        /\ excused'[d] = (IF mark[d] = None THEN {} ELSE 1..mark[d])
    BY <1>1
  <2>2. Placed(d)
    BY DEF ResumeInv, Followed
  <2>3. Placed(d)' /\ Told(d)' /\ Bounded(d)'
    BY <1>1, <2>1, <2>2 DEF Placed, Told, Bounded, None
  <2>4. Ahead(d)'
    BY <1>1, <2>1, <2>2 DEF Ahead, Placed, None
  <2>5. Heard(d)'
    BY <1>1 DEF Heard
  <2> QED BY <2>3, <2>4, <2>5 DEF Followed
<1> QED BY <1>2, <1>3, <1>4 DEF ResumeInv

\* Of a finite set of numbers no two have the same number below them.
LEMMA RanksDiffer ==
  ASSUME NEW K, K \subseteq Nat, IsFiniteSet(K), NEW j \in K, NEW p \in K,
         Cardinality({k \in K : k < j}) = Cardinality({k \in K : k < p})
  PROVE  j = p
<1>1. ASSUME NEW a \in K, NEW b \in K, a < b
      PROVE  Cardinality({k \in K : k < a}) < Cardinality({k \in K : k < b})
  <2> DEFINE A == {k \in K : k < a}
             B == {k \in K : k < b}
             C == A \cup {a}
  <2>1. A \subseteq K /\ B \subseteq K /\ a \notin A /\ C \subseteq B
    <3>1. a \in Nat /\ b \in Nat /\ \A k \in K : k \in Nat
      OBVIOUS
    <3>2. ~(a < a) /\ \A k \in K : k < a => k < b
      BY <1>1, <3>1
    <3>3. a \notin A /\ \A k \in A : k \in B
      BY <3>2
    <3> QED BY <1>1, <3>3
  <2>2. IsFiniteSet(A) /\ IsFiniteSet(B)
    BY <2>1, FS_Subset
  <2>3. Cardinality(C) = Cardinality(A) + 1
    BY <2>1, <2>2, FS_AddElement
  <2>4. Cardinality(C) <= Cardinality(B)
    BY <2>1, <2>2, FS_Subset
  <2>5. Cardinality(A) \in Nat /\ Cardinality(B) \in Nat
    BY <2>2, FS_CardinalityType
  <2> HIDE DEF A, B, C
  <2>6. Cardinality(A) < Cardinality(B)
    BY <2>3, <2>4, <2>5
  <2> QED BY <2>6 DEF A, B
<1> DEFINE below(q) == Cardinality({k \in K : k < q})
<1>2. \A q \in K : below(q) \in Nat
  <2>1. \A q \in K : {k \in K : k < q} \in SUBSET K
    OBVIOUS
  <2>2. \A R \in SUBSET K : Cardinality(R) \in Nat
    BY FS_Subset, FS_CardinalityType
  <2> QED BY <2>1, <2>2
<1>3. below(j) = below(p) /\ \A a \in K : \A b \in K : a < b => below(a) < below(b)
  BY <1>1
<1> HIDE DEF below
<1>4. ~(j < p) /\ ~(p < j)
  BY <1>2, <1>3
<1> QED BY <1>4

\* A device that resumes is sent every event of the buffers that is for it.
LEMMA MissedBrings ==
  ASSUME HubInv, NEW d \in Devices, NEW ids,
         \A i \in ids : i \in 1..seq /\ log[i].ch \in ReplayChannels
  PROVE  /\ \A n \in DOMAIN Missed(d, ids) : Missed(d, ids)[n].kind = "event"
         /\ \A i \in ids : i > mark[d] /\ AudienceReaches(log[i].aud, d) => Carries(Missed(d, ids), i)
<1> DEFINE keep == {i \in ids : i > mark[d] /\ AudienceReaches(log[i].aud, d)}
           below(j) == Cardinality({k \in keep : k < j})
           pick(n) == CHOOSE j \in keep : below(j) = n - 1
<1>1. seq \in Nat
  BY DEF HubInv, LogCounts
<1>2. keep \subseteq 1..seq /\ keep \subseteq Nat
  BY <1>1
<1>3. IsFiniteSet(1..seq)
  BY <1>1, FS_Interval
<1>4. IsFiniteSet(keep) /\ Cardinality(keep) \in Nat
  BY <1>2, <1>3, FS_Subset, FS_CardinalityType
<1>5. Missed(d, ids) = [n \in 1..Cardinality(keep) |-> Frame(d, pick(n), log[pick(n)].ch, SeesAll(d))]
  BY DEF Missed
<1>6. \A i, ch, full : Frame(d, i, ch, full).kind = "event" /\ Frame(d, i, ch, full).id = i
  BY DEF Frame, Event
<1>7. ASSUME NEW i \in keep
      PROVE  below(i) + 1 \in 1..Cardinality(keep) /\ pick(below(i) + 1) = i
  <2> DEFINE L == {k \in keep : k < i}
  <2>1. L \subseteq keep /\ i \in keep /\ i \notin L
    BY <1>2
  <2>2. IsFiniteSet(L)
    BY <1>4, <2>1, FS_Subset
  <2>3. Cardinality(L) <= Cardinality(keep) /\ (Cardinality(L) = Cardinality(keep) => L = keep)
    BY <1>4, <2>1, FS_Subset
  <2>4. Cardinality(L) \in Nat
    BY <2>2, FS_CardinalityType
  <2>5. Cardinality(L) # Cardinality(keep)
    BY <2>1, <2>3
  <2> HIDE DEF L
  <2>6. Cardinality(L) + 1 \in 1..Cardinality(keep) /\ (Cardinality(L) + 1) - 1 = Cardinality(L)
    BY <1>4, <2>3, <2>4, <2>5
  <2>7. below(i) = Cardinality(L)
    BY DEF L
  <2>8. \A j \in keep : below(j) = below(i) => j = i
    BY <1>2, <1>4, RanksDiffer
  <2> HIDE DEF keep, below
  <2>9. pick(below(i) + 1) = CHOOSE j \in keep : below(j) = below(i)
    BY <2>6, <2>7
  <2> HIDE DEF pick
  <2>10. pick(below(i) + 1) = i
    BY <2>8, <2>9
  <2> QED BY <2>6, <2>7, <2>10
<1> HIDE DEF pick, below
<1>8. ASSUME NEW i \in keep PROVE Carries(Missed(d, ids), i)
  <2> DEFINE n == below(i) + 1
  <2>1. n \in 1..Cardinality(keep) /\ pick(n) = i
    BY <1>7, <1>8
  <2> HIDE DEF n, keep
  <2>2. n \in DOMAIN Missed(d, ids) /\ Missed(d, ids)[n] = Frame(d, i, log[i].ch, SeesAll(d))
    BY <1>5, <2>1
  <2>3. Brings(Missed(d, ids)[n], i)
    BY <1>6, <2>2 DEF Brings
  <2> QED BY <2>2, <2>3 DEF Carries
<1>9. \A i \in ids : i > mark[d] /\ AudienceReaches(log[i].aud, d) => i \in keep
  OBVIOUS
<1> HIDE DEF keep
<1>10. \A n \in DOMAIN Missed(d, ids) : Missed(d, ids)[n].kind = "event"
  BY <1>5, <1>6
<1> QED BY <1>8, <1>9, <1>10

\* What is written behind the greeting makes up for all that a device shows

\* it has not seen.
LEMMA ResumedBrings ==
  ASSUME HubInv, BuffersCover', UNCHANGED <<seq, log>>, NEW d \in Devices, Placed(d),
         NEW replay, replay \subseteq ReplayChannels,
         \A ch \in ReplayChannels : held'[ch] \subseteq held[ch],
         NEW frames, frames = Resumed(d, replay)
  PROVE  /\ frames \in Seq(Allowed(d))
         /\ mark[d] = None => frames = <<>>
         /\ \A n \in DOMAIN frames : \/ frames[n].kind = "event"
                                     \/ frames[n].kind = "RESYNC" /\ frames[n].id = seq /\ Len(frames) = 1
         /\ mark[d] # None => \A i \in 1..seq :
              Wanted(d, log[i]) /\ mark[d] < i /\ log[i].ch \in replay => Carries(frames, i)
<1> DEFINE ids == UNION {held'[ch] : ch \in replay}
           m == Missed(d, ids)
           r == Control("RESYNC")
<1>1. seq \in Nat /\ seq' = seq /\ log' = log
  BY DEF HubInv, LogCounts
<1>2. \A i \in ids : i \in 1..seq /\ log[i].ch \in ReplayChannels
  BY DEF HubInv, BuffersHold
<1>3. r.id = seq /\ r.kind = "RESYNC" /\ r \in Allowed(d)
  BY <1>1, ControlIsAllowed DEF Control, Kinds
<1>4. \A ch \in replay : held'[ch] \subseteq ids
  OBVIOUS
<1> HIDE DEF ids
<1>5. m \in Seq(Allowed(d)) /\ (\A n \in DOMAIN m : m[n].kind = "event")
      /\ \A i \in ids : i > mark[d] /\ AudienceReaches(log[i].aud, d) => Carries(m, i)
  BY <1>2, MissedIsAllowed, MissedBrings
<1> HIDE DEF m, r
<1>6. CASE mark[d] = None
  <2>1. frames = <<>>
    BY <1>6 DEF Resumed
  <2> QED BY <1>6, <2>1
<1>7. CASE mark[d] # None /\ Unrecoverable(mark[d], {dropped'[ch] : ch \in replay})
  <2>1. frames = <<r>>
    BY <1>7 DEF Resumed, r
  <2> DEFINE X == Allowed(d)
  <2>2. r \in X
    BY <1>3
  <2> HIDE DEF X
  <2>3. frames \in Seq(X) /\ Len(frames) = 1 /\ frames[1] = r /\ DOMAIN frames = 1..1
    BY <2>1, <2>2
  <2>4. \A i \in 1..seq : Carries(frames, i)
    BY <1>3, <2>3 DEF Carries, Brings
  <2>5. \A n \in DOMAIN frames : n = 1
    BY <2>3
  <2>6. \A n \in DOMAIN frames : frames[n].kind = "RESYNC" /\ frames[n].id = seq /\ Len(frames) = 1
    BY <1>3, <2>3, <2>5
  <2> QED BY <1>7, <2>3, <2>4, <2>6 DEF X
<1>8. CASE mark[d] # None /\ ~Unrecoverable(mark[d], {dropped'[ch] : ch \in replay})
  <2>1. frames = m
    BY <1>8 DEF Resumed, m, ids
  <2>2. mark[d] \in Nat /\ \A ch \in replay : ~(mark[d] < dropped'[ch]) /\ dropped'[ch] \in Nat
    BY <1>8 DEF Unrecoverable, Placed, BuffersCover
  <2>3. ASSUME NEW i \in 1..seq, Wanted(d, log[i]), mark[d] < i, log[i].ch \in replay
        PROVE  Carries(frames, i)
    <3>1. i \in held'[log[i].ch] \/ i <= dropped'[log[i].ch]
      BY <1>1, <2>3 DEF BuffersCover
    <3>2. i \in held'[log[i].ch]
      BY <1>1, <2>2, <2>3, <3>1
    <3>3. i \in ids /\ i > mark[d]
      BY <1>1, <1>4, <2>2, <2>3, <3>2
    <3>4. AudienceReaches(log[i].aud, d)
      BY <2>3 DEF Wanted, AudienceReaches
    <3> QED BY <1>5, <2>1, <3>3, <3>4
  <2> QED BY <1>5, <1>8, <2>1, <2>3
<1> QED BY <1>6, <1>7, <1>8

\* The greeting, what is resumed, and an eviction that ends it.
Greets(x, c, r, v, k) ==
    \/ x = <<c>> \o r
    \/ k \in 1..Len(r) - 1 /\ x = <<c>> \o SubSeq(r, 1, k) \o <<v>>
Laid(S, x, c, r, v, k) ==
    /\ x # <<>> /\ x[1] = c /\ x \in Seq(S)
    /\ \A n \in DOMAIN x : \/ n = 1 /\ x[n] = c
                           \/ n - 1 \in DOMAIN r /\ x[n] = r[n - 1]
                           \/ n = Len(x) /\ x[n] = v /\ x # <<c>> \o r
    /\ x = <<c>> \o r => \A n \in DOMAIN r : n + 1 \in DOMAIN x /\ x[n + 1] = r[n]
    /\ x # <<c>> \o r => \A n \in 1..k : n + 1 \in DOMAIN x /\ x[n + 1] = r[n]
LEMMA GreetedWires ==
  ASSUME NEW S, NEW c \in S, NEW v \in S, NEW r \in Seq(S), NEW x, NEW k, Greets(x, c, r, v, k)
  PROVE  Laid(S, x, c, r, v, k)
<1>1. CASE x = <<c>> \o r
  <2>1. Len(x) = Len(r) + 1 /\ DOMAIN x = 1..(Len(r) + 1) /\ DOMAIN r = 1..Len(r) /\ Len(r) \in Nat
    BY <1>1
  <2>2. x[1] = c /\ \A n \in 1..Len(r) : x[n + 1] = r[n]
    BY <1>1
  <2>3. ASSUME NEW n \in DOMAIN x, n # 1 PROVE n - 1 \in DOMAIN r /\ x[n] = r[n - 1]
    <3>1. n - 1 \in 1..Len(r) /\ (n - 1) + 1 = n
      BY <2>1, <2>3
    <3> QED BY <2>1, <2>2, <3>1
  <2>4. \A n \in DOMAIN r : n + 1 \in DOMAIN x
    BY <2>1
  <2>5. x # <<>> /\ x \in Seq(S)
    BY <1>1, <2>1
  <2> QED BY <1>1, <2>1, <2>2, <2>3, <2>4, <2>5 DEF Laid
<1>2. CASE x # <<c>> \o r
  <2> DEFINE s == SubSeq(r, 1, k)
  <2>1. k \in 1..Len(r) - 1 /\ x = <<c>> \o s \o <<v>>
    BY <1>2 DEF Greets
  <2>2. Len(r) \in Nat /\ DOMAIN r = 1..Len(r) /\ s \in Seq(S) /\ Len(s) = k
        /\ k \in Nat /\ \A n \in 1..k : s[n] = r[n]
    BY <2>1
  <2> HIDE DEF s
  <2>3. Len(x) = k + 2 /\ DOMAIN x = 1..(k + 2)
    BY <2>1, <2>2
  <2>4. x[1] = c /\ x[k + 2] = v /\ \A n \in 1..k : x[n + 1] = s[n]
    BY <2>1, <2>2
  <2>5. ASSUME NEW n \in DOMAIN x, n # 1, n # k + 2 PROVE n - 1 \in DOMAIN r /\ x[n] = r[n - 1]
    <3>1. n - 1 \in 1..k /\ n - 1 \in 1..Len(r) /\ (n - 1) + 1 = n
      BY <2>1, <2>2, <2>3, <2>5
    <3> QED BY <2>2, <2>4, <3>1
  <2>7. <<c>> \in Seq(S) /\ <<v>> \in Seq(S)
    OBVIOUS
  <2>8. <<c>> \o s \in Seq(S)
    BY <2>2, <2>7
  <2>9. x \in Seq(S)
    BY <2>1, <2>7, <2>8
  <2>6. x # <<>> /\ \A n \in 1..k : n + 1 \in DOMAIN x /\ x[n + 1] = r[n]
    BY <2>2, <2>3, <2>4
  <2> QED BY <1>2, <2>3, <2>4, <2>5, <2>6, <2>9 DEF Laid
<1> QED BY <1>1, <1>2

\* A device connects: its new wire makes up for what it has not seen.
LEMMA ConnectFollows ==
  ASSUME ResumeInv, UNCHANGED <<who, proven, mark, since, got, seq, log>>, NEW d \in Devices, d \notin alive,
         NEW r \in Seq(Allowed(d)), NEW k, d \in alive',
         mark[d] = None => r = <<>>,
         \A n \in DOMAIN r : \/ r[n].kind = "event"
                             \/ r[n].kind = "RESYNC" /\ r[n].id = seq /\ Len(r) = 1,
         mark[d] # None => \A i \in 1..seq : Wanted(d, log[i]) /\ mark[d] < i => Carries(r, i),
         \/ wire'[d] = <<Control("CONNECTED")>> \o r /\ excused'[d] = excused[d]
         \/ /\ k \in 1..Len(r) - 1 /\ d \notin open'
            /\ wire'[d] = <<Control("CONNECTED")>> \o SubSeq(r, 1, k) \o <<Control("EVICTED")>>
            /\ excused'[d] = excused[d] \cup {r[n].id : n \in k + 1..Len(r)}
  PROVE  Followed(d)'
<1> DEFINE c == Control("CONNECTED")
           v == Control("EVICTED")
           x == wire'[d]
           S == Allowed(d)
<1>1. mark' = mark /\ since' = since /\ got' = got /\ seq' = seq /\ log' = log
  OBVIOUS
<1>2. seq \in Nat
  BY DEF ResumeInv, HubInv, LogCounts
<1>3. c \in S /\ v \in S /\ c.kind = "CONNECTED" /\ c.id = seq /\ v.kind = "EVICTED" /\ v.id = seq
  BY <1>2, ControlIsAllowed DEF Control, Kinds
<1>4. Placed(d) /\ Ahead(d) /\ Bounded(d) /\ Told(d) /\ Heard(d)
  BY DEF ResumeInv, Followed
<1>5. Len(r) \in Nat /\ DOMAIN r = 1..Len(r)
  OBVIOUS
<1>6. \A n \in DOMAIN r : r[n].id \in Nat /\ r[n].id <= seq /\ r[n].kind # "EVICTED"
                          /\ (r[n].kind = "RESYNC" => r[n].id = seq)
  <2>1. \A n \in DOMAIN r : r[n] \in Allowed(d)
    OBVIOUS
  <2>2. \A f \in Allowed(d) : f.id \in Nat /\ (f.kind = "event" => f.id <= seq)
    BY <1>2 DEF Allowed, Frames
  <2> HIDE DEF S
  <2> QED BY <1>2, <2>1, <2>2
<1>7. Greets(x, c, r, v, k)
  BY DEF Greets
<1>8. x # <<c>> \o r => k \in 1..Len(r) - 1 /\ d \notin open'
  OBVIOUS
<1>9. \A i : i \in excused[d] => i \in excused'[d]
  OBVIOUS
<1>10. x # <<c>> \o r => \A n \in k + 1..Len(r) : r[n].id \in excused'[d]
  OBVIOUS
<1> HIDE DEF c, v, x, S
<1>11. /\ x # <<>> /\ x[1] = c /\ x \in Seq(S)
       /\ \A n \in DOMAIN x : \/ n = 1 /\ x[n] = c
                              \/ n - 1 \in DOMAIN r /\ x[n] = r[n - 1]
                              \/ n = Len(x) /\ x[n] = v /\ x # <<c>> \o r
       /\ x = <<c>> \o r => \A n \in DOMAIN r : n + 1 \in DOMAIN x /\ x[n + 1] = r[n]
       /\ x # <<c>> \o r => \A n \in 1..k : n + 1 \in DOMAIN x /\ x[n + 1] = r[n]
  <2>1. r \in Seq(S)
    BY DEF S
  <2>2. Laid(S, x, c, r, v, k)
    BY <1>3, <1>7, <2>1, GreetedWires
  <2> QED BY <2>2 DEF Laid
<1>12. \A n \in DOMAIN x : /\ x[n].id <= seq
                           /\ x[n].kind = "EVICTED" => n = Len(x) /\ d \notin open'
                           /\ x[n].kind = "RESYNC" => x[n].id = seq
  <2>1. ASSUME NEW n \in DOMAIN x
        PROVE  /\ x[n].id <= seq
               /\ x[n].kind = "EVICTED" => n = Len(x) /\ d \notin open'
               /\ x[n].kind = "RESYNC" => x[n].id = seq
    <3>1. CASE n = 1 /\ x[n] = c
      BY <1>2, <1>3, <3>1
    <3>2. CASE n - 1 \in DOMAIN r /\ x[n] = r[n - 1]
      BY <1>6, <3>2
    <3>3. CASE n = Len(x) /\ x[n] = v /\ x # <<c>> \o r
      BY <1>2, <1>3, <1>8, <3>3
    <3> QED BY <1>11, <2>1, <3>1, <3>2, <3>3
  <2> QED BY <2>1
<1>13. Placed(d)' /\ Ahead(d)'
  BY <1>1, <1>4, <1>9 DEF Placed, Ahead
<1>14. Bounded(d)'
  BY <1>1, <1>3, <1>11, <1>12 DEF Bounded, x
<1>15. Told(d)'
  <2>1. since[d] <= seq
    BY <1>4 DEF Told
  <2>2. ASSUME NEW n \in DOMAIN x, x[n].kind = "RESYNC", NEW m \in 1..n PROVE x[m].id <= x[n].id
    <3>1. m \in DOMAIN x
      <4>1. DOMAIN x = 1..Len(x) /\ Len(x) \in Nat
        BY <1>11
      <4> QED BY <2>2, <4>1
    <3> QED BY <1>12, <2>2, <3>1
  <2> QED BY <1>1, <1>12, <2>1, <2>2 DEF Told, x
<1>16. ASSUME NEW i \in 1..seq, Wanted(d, log[i]), From(d, i)'
       PROVE  i \in got[d] \/ i \in excused'[d] \/ Carries(x, i)
  <2>1. mark[d] # None
    <3>1. CASE mark[d] = None
      <4>1. x[1].id < i
        BY <1>1, <1>16, <3>1 DEF From, x
      <4> QED BY <1>2, <1>3, <1>11, <4>1
    <3> QED BY <3>1
  <2>2. mark[d] \in Nat
    BY <1>4, <2>1 DEF Placed
  <2>3. CASE i <= mark[d]
    <3>1. From(d, i) /\ Shown(d, i)
      BY <1>1, <1>16, <2>1, <2>3 DEF From, Shown
    <3>2. wire[d] = <<>>
      BY <1>4 DEF Bounded
    <3>3. i \in got[d] \/ i \in excused[d]
      BY <1>4, <1>16, <3>1, <3>2, WireEmpty DEF Heard
    <3> QED BY <1>9, <3>3
  <2>4. CASE mark[d] < i
    <3>1. Carries(r, i)
      BY <1>16, <2>1, <2>4
    <3>2. PICK n \in DOMAIN r : Brings(r[n], i)
      BY <3>1 DEF Carries
    <3>3. CASE n + 1 \in DOMAIN x /\ x[n + 1] = r[n]
      BY <3>2, <3>3 DEF Carries
    <3>4. CASE ~(n + 1 \in DOMAIN x /\ x[n + 1] = r[n])
      <4>1. x # <<c>> \o r /\ ~(n \in 1..k)
        BY <1>11, <3>4
      <4>2. k \in 1..Len(r) - 1
        BY <1>8, <4>1
      <4>3. n \in k + 1..Len(r)
        BY <1>5, <4>1, <4>2
      <4>4. r[n].kind = "event"
        <5>1. Len(r) # 1
          BY <1>5, <4>2
        <5> QED BY <5>1
      <4>5. r[n].id = i
        BY <3>2, <4>4 DEF Brings
      <4> QED BY <1>10, <4>1, <4>3, <4>5
    <3> QED BY <3>3, <3>4
  <2> QED BY <2>2, <2>3, <2>4
<1>17. Heard(d)'
  BY <1>1, <1>16, WantedStays DEF Heard, x
<1> QED BY <1>13, <1>14, <1>15, <1>17 DEF Followed

LEMMA ConnectResumes ==
  ASSUME ResumeInv, UNCHANGED <<who, proven>>, NEW d \in Devices, Connect(d)
  PROVE  ResumeInv'
<1> DEFINE joined == {ch \in Asks[d] : MayJoin(d, ch)}
           replay == joined \cap ReplayChannels
           hello == <<Control("CONNECTED")>>
           frames == Resumed(d, replay)
<1>1. /\ seq' = seq /\ log' = log /\ mark' = mark /\ since' = since /\ got' = got
      /\ d \notin alive /\ alive' = alive \cup {d}
      /\ channels' = [channels EXCEPT ![d] = joined]
      /\ PruneAll(replay)
      /\ \/ /\ wire' = [wire EXCEPT ![d] = hello \o frames]
            /\ open' = open \cup {d} /\ excused' = excused
         \/ \E k \in 1..Len(frames) - 1 :
              /\ wire' = [wire EXCEPT ![d] = hello \o SubSeq(frames, 1, k) \o <<Control("EVICTED")>>]
              /\ open' = open \ {d}
              /\ excused' = [excused EXCEPT ![d] = excused[d] \cup {frames[n].id : n \in k + 1..Len(frames)}]
  BY DEF Connect, deviceVars
<1>2. PICK gone : /\ \A ch \in ReplayChannels : gone[ch] \in (IF ch \in replay THEN Pruned(held[ch]) ELSE {{}})
                  /\ held' = [ch \in ReplayChannels |-> held[ch] \ gone[ch]]
                  /\ dropped' = [ch \in ReplayChannels |-> MarkAfter(ch, gone[ch])]
  BY <1>1 DEF PruneAll
<1>3. HubInv' /\ HubInv /\ BuffersCover /\ seq \in Nat
  BY HubConnectKeeps DEF ResumeInv, HubInv, LogCounts
<1>4. replay \subseteq ReplayChannels /\ \A e : Wanted(d, e) => e.ch \in replay
  BY DEF Wanted
<1>5. channels' = [channels EXCEPT ![d] = joined] /\ joined = {ch \in Asks[d] : MayJoin(d, ch)}
  BY <1>1
<1> HIDE DEF replay, joined
<1>6. ASSUME NEW ch \in ReplayChannels
      PROVE  /\ gone[ch] \subseteq held[ch] /\ dropped'[ch] = MarkAfter(ch, gone[ch])
             /\ held'[ch] = held[ch] \ gone[ch]
             /\ dropped'[ch] \in Nat /\ dropped[ch] <= dropped'[ch]
             /\ \A i \in gone[ch] : i <= dropped'[ch]
  <2>1. gone[ch] \subseteq held[ch]
    <3>1. CASE ch \in replay
      BY <1>2, <3>1, PrunedIsHeld
    <3>2. CASE ch \notin replay
      BY <1>2, <3>2
    <3> QED BY <3>1, <3>2
  <2>2. held[ch] \subseteq 0..seq
    BY <1>3 DEF HubInv, BuffersHold
  <2>3. gone[ch] \subseteq 0..seq
    BY <2>1, <2>2
  <2>4. /\ MarkAfter(ch, gone[ch]) \in Nat /\ dropped[ch] <= MarkAfter(ch, gone[ch])
        /\ \A i \in gone[ch] : i <= MarkAfter(ch, gone[ch])
    BY <1>3, <2>3, MarkCovers
  <2>5. dropped'[ch] = MarkAfter(ch, gone[ch]) /\ held'[ch] = held[ch] \ gone[ch]
    BY <1>2
  <2> QED BY <2>1, <2>4, <2>5
<1>7. BuffersCover'
  <2>1. dropped' \in [ReplayChannels -> Nat] /\ dropped \in [ReplayChannels -> Nat]
    BY <1>2, <1>3, <1>6 DEF BuffersCover
  <2>2. ASSUME NEW i \in 1..seq, log[i].ch \in ReplayChannels
        PROVE  i \in held'[log[i].ch] \/ i <= dropped'[log[i].ch]
    <3> DEFINE ch == log[i].ch
    <3>1. i \in held[ch] \/ i <= dropped[ch]
      BY <1>3, <2>2 DEF BuffersCover
    <3>2. dropped[ch] \in Nat /\ dropped'[ch] \in Nat /\ dropped[ch] <= dropped'[ch]
      BY <1>6, <2>1, <2>2
    <3>3. i \in held[ch] => i \in held'[ch] \/ i <= dropped'[ch]
      BY <1>6, <2>2
    <3> HIDE DEF ch
    <3>4. i <= dropped[ch] => i <= dropped'[ch]
      BY <1>3, <3>2
    <3> QED BY <3>1, <3>3, <3>4 DEF ch
  <2> QED BY <1>1, <2>1, <2>2 DEF BuffersCover
<1>8. DOMAIN wire = Devices /\ DevicesKnown /\ ClientsJoined
      /\ \A q \in Devices : Followed(q)
  BY DEF ResumeInv, HubInv, WiresAllowed
<1>9. UNCHANGED <<seq, log>> /\ \A ch \in ReplayChannels : held'[ch] \subseteq held[ch]
  BY <1>1, <1>6
<1>10. /\ frames \in Seq(Allowed(d))
       /\ mark[d] = None => frames = <<>>
       /\ \A n \in DOMAIN frames : \/ frames[n].kind = "event"
                                   \/ frames[n].kind = "RESYNC" /\ frames[n].id = seq /\ Len(frames) = 1
       /\ mark[d] # None => \A i \in 1..seq :
            Wanted(d, log[i]) /\ mark[d] < i /\ log[i].ch \in replay => Carries(frames, i)
  <2>1. Placed(d)
    BY <1>8 DEF Followed
  <2> QED BY <1>3, <1>4, <1>7, <1>9, <2>1, ResumedBrings
<1> HIDE DEF frames
<1>11. mark[d] # None => \A i \in 1..seq : Wanted(d, log[i]) /\ mark[d] < i => Carries(frames, i)
  BY <1>4, <1>10
<1>12. \E k :
         \/ wire'[d] = hello \o frames /\ excused'[d] = excused[d]
         \/ /\ k \in 1..Len(frames) - 1 /\ d \notin open'
            /\ wire'[d] = hello \o SubSeq(frames, 1, k) \o <<Control("EVICTED")>>
            /\ excused'[d] = excused[d] \cup {frames[n].id : n \in k + 1..Len(frames)}
  BY <1>1, <1>8 DEF DevicesKnown
<1>13. UNCHANGED <<who, proven, mark, since, got, seq, log>> /\ d \in alive' /\ d \notin alive
  BY <1>1
<1>14. Followed(d)'
  BY <1>10, <1>11, <1>12, <1>13, ConnectFollows
<1>15. ASSUME NEW q \in Devices, q # d PROVE Followed(q)'
  <2>1. wire'[q] = wire[q] /\ excused'[q] = excused[q]
    BY <1>1, <1>8, <1>15 DEF DevicesKnown
  <2>2. (q \in open' <=> q \in open) /\ (q \in alive' <=> q \in alive)
    BY <1>1, <1>15
  <2>3. UNCHANGED <<who, proven, seq, log>> /\ mark'[q] = mark[q] /\ since'[q] = since[q] /\ got'[q] = got[q]
    BY <1>1
  <2> QED BY <1>8, <2>1, <2>2, <2>3, OthersStay
<1>16. DevicesKnown'
  <2>1. DOMAIN excused' = DOMAIN excused
    BY <1>1
  <2> QED BY <1>1, <1>8, <2>1 DEF DevicesKnown
<1>17. ClientsJoined'
  <2>1. \A q, ch : MayJoin(q, ch)' <=> MayJoin(q, ch)
    BY DEF MayJoin, IsLead
  <2>2. open' \subseteq open \cup {d}
    BY <1>1
  <2>3. DOMAIN channels' = Devices /\ channels'[d] = joined /\ \A q \in Devices \ {d} : channels'[q] = channels[q]
    BY <1>5, <1>8 DEF ClientsJoined
  <2>4. \A q \in open : q \in Devices
    BY <1>3 DEF HubInv, ClientsKnown
  <2>5. ASSUME NEW q \in open' PROVE channels'[q] = {ch \in Asks[q] : MayJoin(q, ch)}
    <3>1. CASE q = d
      BY <1>5, <2>3, <3>1
    <3>2. CASE q # d
      BY <1>8, <2>2, <2>3, <2>4, <2>5, <3>2 DEF ClientsJoined
    <3> QED BY <3>1, <3>2
  <2> QED BY <2>1, <2>3, <2>5 DEF ClientsJoined
<1> QED BY <1>3, <1>7, <1>14, <1>15, <1>16, <1>17 DEF ResumeInv

LEMMA ResumeAlways == CampusSpec => []ResumeInv
<1>1. ResumeInv /\ Next => ResumeInv'
  BY PublishResumes, SendResumes, ConnectResumes, ReceiveResumes, StallResumes, CutResumes,
     SweepResumes, RestartResumes DEF Next, Step
<1>2. ResumeInv /\ UNCHANGED vars => ResumeInv'
  <2> SUFFICES ASSUME ResumeInv, UNCHANGED vars PROVE ResumeInv'
    OBVIOUS
  <2>1. /\ who' = who /\ proven' = proven /\ seq' = seq /\ log' = log /\ held' = held
        /\ dropped' = dropped /\ open' = open /\ channels' = channels /\ fullSos' = fullSos
        /\ wire' = wire /\ alive' = alive /\ mark' = mark /\ got' = got /\ since' = since
        /\ excused' = excused
    BY DEF vars, hubVars, clientVars, deviceVars
  <2>2. BuffersCover' /\ ClientsJoined' /\ DevicesKnown'
    <3>1. UNCHANGED <<who, proven, channels>>
      BY <2>1
    <3> QED BY <2>1, <3>1, JoinedStays DEF ResumeInv, BuffersCover, DevicesKnown
  <2>3. HubInv'
    <3>1. BuffersHold' /\ ClientsKnown'
      BY <2>1 DEF ResumeInv, HubInv, BuffersHold, ClientsKnown, SeesAll, IsLead
    <3>2. UNCHANGED <<who, proven, seq, log>>
      BY <2>1
    <3>3. /\ DOMAIN wire' = Devices /\ wire' = [q \in Devices |-> wire'[q]]
          /\ \A q \in Devices : wire'[q] \in Seq(Allowed(q))
      BY <2>1 DEF ResumeInv, HubInv, WiresAllowed
    <3> QED BY <3>1, <3>2, <3>3, Silently DEF ResumeInv
  <2>4. ASSUME NEW d \in Devices PROVE Followed(d)'
    <3>1. Followed(d) /\ UNCHANGED <<who, proven, seq, log>>
      BY <2>1 DEF ResumeInv
    <3> QED BY <2>1, <3>1, OthersStay
  <2> QED BY <2>2, <2>3, <2>4 DEF ResumeInv
<1>3. [CampusNext]_campusVars => Next \/ UNCHANGED vars
  BY DEF CampusNext, HubMoves, LimitsMove, MapMoves, BountyMoves, campusVars
<1>4. ResumeInv /\ [CampusNext]_campusVars => ResumeInv'
  BY <1>1, <1>2, <1>3
<1> QED BY ResumeInit, <1>4, PTL DEF CampusSpec

\* Whatever is lost on the way, a device that shows an id has received every
\* public event before it that it asked for, is about to, was told to refetch,
\* or lost it in a way that is excused: the replay of registerClient and the
\* drop marks of publish in src/src/common/sse/eventHub.ts.
THEOREM NothingMissed == CampusSpec => []MissedIsExcused
<1>1. ResumeInv => MissedIsExcused
  <2> SUFFICES ASSUME ResumeInv, NEW d \in Devices, NEW i \in Owed(d), i \notin got[d], i \notin Coming(d)
               PROVE  i \in excused[d]
    BY DEF MissedIsExcused, Silent
  <2>1. i \in 1..seq /\ Wanted(d, log[i]) /\ since[d] # None /\ since[d] < i /\ i <= mark[d]
    BY DEF Owed, Wanted
  <2>2. Placed(d) /\ Heard(d)
    BY DEF ResumeInv, Followed
  <2>3. From(d, i) /\ Shown(d, i)
    BY <2>1, <2>2 DEF From, Shown, Placed
  <2>4. ~Carries(wire[d], i)
    BY CarriedIsComing
  <2> QED BY <2>1, <2>2, <2>3, <2>4 DEF Heard
<1> QED BY <1>1, ResumeAlways, PTL
=============================================================================
