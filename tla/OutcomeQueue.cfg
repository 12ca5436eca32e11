\* Room for two, seven outcomes, three failing flushes.
SPECIFICATION FairSpec
CONSTANTS
  MaxSize = 2
  MaxOutcome = 7
  MaxErrors = 3
  Faults = {"db", "lost_reply"}
INVARIANTS TypeOK Accounted Bounded Ordered
PROPERTY Flushed
CHECK_DEADLOCK FALSE
