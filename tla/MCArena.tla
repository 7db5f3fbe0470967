------------------------------- MODULE MCArena -------------------------------
(* Small instances of Arena for TLC. *)
EXTENDS Arena, TLC

CONSTANTS p1, p2, red, blue, x1, x2, s1, e1, e2, j1, u1

\* p1 attempts the challenge; either may fight, p1 may raise a shield and p2
\* may spend a core.
Challenger == [x \in Attempts |-> p1]
Spun == [p \in Players |-> IF p = p1 THEN [core |-> 0, shield |-> 1] ELSE [core |-> 1, shield |-> 0]]

ArenaSymmetry == Permutations(Factions) \cup Permutations(Attempts) \cup Permutations(Spends)
=============================================================================
