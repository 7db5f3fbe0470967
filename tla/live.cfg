SPECIFICATION Spec
CONSTANTS
  Crowd = 2
  OffDuty = {1}
  Reduced = 1
  IdxWrap = 4
  MaxWire = 1
  MaxEvents = 3
CHECK_DEADLOCK FALSE
PROPERTY PageSettles
