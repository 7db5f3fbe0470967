SPECIFICATION Spec
CONSTANTS
  p1 = p1 p2 = p2 red = red blue = blue x1 = x1 x2 = x2 s1 = s1 e1 = e1 e2 = e2 j1 = j1 u1 = u1
  Players = {p1, p2}
  Factions = {red, blue}
  Attempts = {x1, x2}
  OwnerOf <- Challenger
  Strikes = {s1}
  Spends = {e1, e2}
  Judges = {j1}
  Uses = {u1}
  Items <- Spun
  Powers = {2}
  CapturePower = 2
  FullPoints = 3
  FreshPoints = 1
  CorePoints = 2
  MaxRetries = 2
  Required = TRUE
CHECK_DEADLOCK FALSE
SYMMETRY ArenaSymmetry
INVARIANTS CapturesAreWon OneSide
PROPERTY ShieldHolds
