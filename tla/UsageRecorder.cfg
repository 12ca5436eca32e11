\* Two days, overlapping flushes, failing statements and commits.
SPECIFICATION FairSpec
CONSTANTS
  LastDay = 2
  MaxUsed = 2
  MaxErrors = 2
  Faults = {"db", "lost_reply"}
INVARIANTS TypeOK QuietCounted CountedOnce
PROPERTY Drains
CHECK_DEADLOCK FALSE
