SPECIFICATION FairSpec
CONSTANTS
  NoId = NoId
  m1 = m1
  m2 = m2
  m3 = m3
  again = again
  drop = drop
  Id = {m1, m2, m3}
  Command = {again, drop}
  Mode <- MCMode
  Matching <- MCMatching
  Limit <- MCLimit
  MaxErrors = 2
  Faults = {"refused", "lost_reply", "restore", "outage", "killed"}
INVARIANT TypeOK
INVARIANT ExactlyOnce
INVARIANT PassResult
PROPERTY Refinement
PROPERTY PassEnds
CHECK_DEADLOCK FALSE
