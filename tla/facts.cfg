SPECIFICATION Spec
CONSTANTS
  Writers = {w1, w2}
  Kinds = {"role", "revoke", "logout", "optOut"}
  Samples = {s1}
  KeepsSampling = TRUE
  Flights = {f1, f2}
  MaxEvents = 1
CHECK_DEADLOCK FALSE
PROPERTY SamplerIsFollowed
