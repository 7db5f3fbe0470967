SPECIFICATION MCSpec
CONSTANTS
  a1 = a1 a2 = a2 a3 = a3 a4 = a4 a5 = a5 k1 = k1 k2 = k2 v1 = v1 s1 = s1 s2 = s2
  Attempts = {a1, a2, a3, a4, a5}
  Keys = {k1, k2}
  Volunteers = {v1}
  Shifts = {s1, s2}
  KeyOf <- KeyOfEach
  VolunteerOf <- OneVolunteer
  ShiftOf <- TwoShifts
  AllowWaitlist <- SomeQueue
  Clash <- Overlap
  Tries = 2
  Touches = {TRUE, FALSE}
  CanAge = TRUE
  CanExpire = TRUE
SYMMETRY RetrySymmetry
INVARIANTS LiveHolderKeepsLock NoDoubleBooking CommittedIsReal AnswersAreTrue
PROPERTY OwnerDecides
