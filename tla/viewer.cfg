SPECIFICATION MCSpec
CONSTANTS
  Crowd = 2
  OffDuty = {1}
  Reduced = 1
  IdxWrap = 4
  MaxWire = 1
  MaxEvents = 3
  Requests = {r1, r2}
  Streams = {r1}
  Passes = {p1}
  Writers = {w1, w2}
  Remote = {w2}
  Ttl = 1
  MaxFails = 1
CHECK_DEADLOCK FALSE
INVARIANTS NamesAreRight TtlBoundsStaleness OldCopyIsExcused
PROPERTY StreamsFollow
