\* Nothing fails; a reference is used on two dates.
SPECIFICATION Spec
CONSTANTS
  f1 = f1
  d1 = d1
  d2 = d2
  a1 = a1
  a2 = a2
  c1 = c1
  c2 = c2
  y1 = y1
  y2 = y2
  Fund = {f1}
  Date = {d1, d2}
  Ref = {a1, a2}
  Type = {"ISSUE", "REDEEM"}
  Request <- MCRequest
  Reversible <- MCReversible
  Client = {c1, c2}
  Relay = {y1}
  MaxDepth = 1
  AttemptLimit = 4
  MaxErrors = 0
  Faults = {}
INVARIANT MovementBooked
CHECK_DEADLOCK FALSE
