----------------------------- MODULE MCJobQueue -----------------------------
(* Instances of JobQueue for TLC. Messages i1 and i2 name one job, as when two *)
(* scheduler replicas fire it; bad is rejected by the token check; unknown     *)
(* names a job the worker has not registered.                                  *)
EXTENDS JobQueue, TLC

CONSTANTS i1, i2, bad, unknown, jA, jB, w1, w2, w3

MCJobOf == [i \in Id |-> IF i = unknown THEN jB ELSE jA]
MCKindOf == [i \in Id |-> IF i = bad THEN "badtoken" ELSE "job"]
MCQueueBound == Len(queue) <= 2
MCWorkers == Permutations(Worker)
MCSymmetry == Permutations(Worker) \cup Permutations(Id)
=============================================================================
