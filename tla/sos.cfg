SPECIFICATION FairSpec
CONSTANTS
  ann = ann bob = bob lea = lea d1 = d1 d2 = d2 m1 = m1 m2 = m2 t1 = t1 t2 = t2 w1 = w1 w2 = w2
  Accounts = {ann, bob, lea}
  Leads = {lea}
  Responders = {ann, bob}
  Creator = ann
  Dispatches = {d1, d2}
  Moves = {m1, m2}
  Resolves = {t1, t2}
  ActorOf <- Actors
  Sweepers = {w1, w2}
INVARIANTS SomebodyIsComing PaidOnce
PROPERTIES AssignmentStands UnansweredIsHeard
