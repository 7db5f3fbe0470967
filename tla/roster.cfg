SPECIFICATION RosterSpec
CONSTANTS
  w = w x = x y = y z = z A = A B = B C = C D = D rA = rA rB = rB rC = rC rD = rD rE = rE
  p1 = p1 p2 = p2 p3 = p3 p4 = p4 a1 = a1 s1 = s1 k1 = k1 k2 = k2 q1 = q1 q2 = q2 c1 = c1
  Rows = {rA, rB, rC, rD, rE}
  Shifts = {w, x, y, z}
  Volunteers = {A, B, C, D}
  ShiftOf <- RingShift
  HolderOf <- RingHolder
  Clash = {}
  Proposals = {p1, p2, p3, p4}
  By <- RingBy
  Give <- RingGive
  Want <- RingWant
  Desired <- RingDesired
  Named <- RingNamed
  Accepts = {a1}
  Passes = {s1}
  Scans = {k1, k2}
  Outs = {q1, q2}
  Cancels = {c1}
SYMMETRY DeskSymmetry
INVARIANTS OneRowPerShift PaidOnceWorked
PROPERTIES TradesBalance FinalStays
