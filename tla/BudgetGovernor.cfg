SPECIFICATION Spec
CONSTANTS
  r1 = r1
  r2 = r2
  r3 = r3
  p1 = p1
  p2 = p2
  Task = {r1, r2, r3}
  Process = {p1, p2}
  ProcOf <- MCProcOf
  Critical = {r3}
  DailyLimit = 2
  WarnPct = 50
  SoftPct = 50
  WindowCap = 1
  Cooldown = 1
  DayLength = 1
  MaxNow = 1
  MaxErrors = 1
  Faults = {"cancel", "crash", "redis", "302"}
SYMMETRY MCSymmetry
INVARIANTS TypeOK DailyCap NoOvercount
PROPERTY CooldownHolds
CHECK_DEADLOCK FALSE
