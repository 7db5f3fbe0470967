SPECIFICATION Spec
CONSTANTS
  booth = booth stand = stand quest = quest
  s1 = s1 s2 = s2 s3 = s3 a1 = a1 a2 = a2 a3 = a3
  Scans = {s1, s2, s3}
  Advances = {a1, a2, a3}
  Deeds = {booth, stand, quest}
  DeedOf <- Deed
  AdvanceOf <- Event
  Target = 2
  Price <- Karma
  Multiplier = 2
  Caps <- DayCaps
  Earlier <- Mornings
  Attempts = 5
  Faults = {"ledger", "balance", "sticker", "badge", "item", "close", "undo", "crash"}
  MaxFaults = 1
CHECK_DEADLOCK FALSE
INVARIANTS CapHolds LedgerExplainsBalance RefusedMeansFull TierNeverAhead
PROPERTY PaidOnce
