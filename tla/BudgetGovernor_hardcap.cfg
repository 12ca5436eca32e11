SPECIFICATION Spec
CONSTANTS
  r1 = r1
  r2 = r2
  r3 = r3
  p1 = p1
  p2 = p2
  Task = {r1, r2, r3}
  Process = {p1, p2}
  ProcOf <- MCProcOf
  Critical = {r1, r2, r3}
  DailyLimit = 1
  WarnPct = 100
  SoftPct = 100
  WindowCap = 2
  Cooldown = 1
  DayLength = 1
  MaxNow = 0
  MaxErrors = 0
  Faults = {"cancel"}
INVARIANT HardCap
CHECK_DEADLOCK FALSE
