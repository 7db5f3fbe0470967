SPECIFICATION MCSpec
CONSTANTS
  lead = lead helper = helper phone = phone Nobody = Nobody
  c1 = c1 c2 = c2 c3 = c3 c4 = c4 h = h i1 = i1 i2 = i2 Anonymous = Anonymous
  r1 = r1 r2 = r2 r3 = r3
  Devices = {phone}
  Accounts = {lead, helper}
  Leads = {lead}
  Legacy = TRUE
  Asks <- Wants
  Keep = 1
  MaxSeq = 3
  Troubles = {"cut", "full", "restart"}
  MaxTroubles = 2
  Conns = {c1, c2, c3, c4}
  Holders = {h}
  Ips = {i1, i2}
  Trusted = {i1}
  TotalSlots = 3
  PerAccount = 1
  PerIp = 1
  AnonSlots = 1
  AnonPerIp = 1
  Crowd = 4
  Reach = 3
  Cells = {1, 2}
  Caps = {0, 1, 2}
  Requests = {r1, r2, r3}
  Bounties = {1, 2}
  Budget = 3
  MaxBodyAttempts = 2
  MaxCommitAttempts = 2
  MaxAborts = 2
CHECK_DEADLOCK FALSE
INVARIANTS OnlyProvenSee MissedIsExcused EveryStreamIsCounted CeilingsHold EverybodyOnce BudgetIsPromised OneTicketEach
