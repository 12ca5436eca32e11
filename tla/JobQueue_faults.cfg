SPECIFICATION Spec
CONSTANTS
  NoId = NoId
  i1 = i1
  i2 = i2
  bad = bad
  unknown = unknown
  jA = jA
  jB = jB
  w1 = w1
  w2 = w2
  w3 = w3
  Id = {i1}
  Job = {jA}
  Worker = {w1, w2}
  JobOf <- MCJobOf
  KindOf <- MCKindOf
  MaxErrors = 1
  Registered = {jA}
  MaxRetries = 2
  Faults = {"crash", "stop", "redis", "recovery_crash", "marker"}
INVARIANT TypeOK
INVARIANT MutualExclusion
INVARIANT DeadMeansExhausted
SYMMETRY MCWorkers
CHECK_DEADLOCK FALSE
CONSTRAINT MCQueueBound
