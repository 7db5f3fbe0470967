SPECIFICATION FairSpec
CONSTANTS
  r1 = r1 r2 = r2 r3 = r3 r4 = r4 r5 = r5 r6 = r6 c1 = c1 c2 = c2 o1 = o1
  v1 = v1 v2 = v2 v3 = v3 v4 = v4 v5 = v5
  Reserves = {r1, r2}
  Cancels = {c1}
  Organisers = {o1}
  Volunteers = {v1, v2}
  VolunteerOf <- SomeShareVolunteer
  Capacity = 1
  Capacities = {1, 2}
  Faults = {"lost_reply", "crash"}
INVARIANT OneActiveRow
PROPERTY HeldSeatSettles
