---------------------------- MODULE OutcomeQueue ----------------------------
(***************************************************************************)
(* The accuracy outcome queue (services/accuracy_outcome_queue.py):        *)
(* outcomes of signals wait in a deque and are written to signal_accuracy  *)
(* in batches by a background flusher, and once more when the application  *)
(* stops. One step is what a coroutine does up to its next await; the      *)
(* INSERTs of a batch are one transaction. An outcome is its number in the *)
(* order of enqueue. The death of the process, which loses the deque, is   *)
(* left out.                                                               *)
(***************************************************************************)
EXTENDS Integers, Sequences

CONSTANTS
  MaxSize,     \* maxsize of the queue
  MaxOutcome,  \* bound: outcomes enqueued in one behaviour
  MaxErrors,   \* bound: failing flushes in one behaviour
  Faults       \* what may go wrong in this instance

FaultKind ==
  {"db",          \* the transaction raises, nothing is stored
   "lost_reply"}  \* its commit raises after it was applied

ASSUME BoundAssumption ==
  /\ MaxSize \in Nat \ {0} /\ MaxOutcome \in Nat /\ MaxErrors \in Nat
  /\ Faults \subseteq FaultKind

VARIABLES
  queue,    \* _queue, its left end first
  batch,    \* the batch a flush has taken out of it, <<>> for none
  phase,    \* "timer" (the flusher runs), "stop" (it is cancelled), "stopped"
  stored,   \* rows of signal_accuracy in the order of their INSERT
  next,     \* the next outcome
  dropped,  \* history: outcomes dropped by an overflow (dropped_total)
  lost,     \* history: outcomes of a batch that was cancelled
  again,    \* history: outcomes queued again although their rows were stored
  failed    \* _flush_failed_total

histVars == <<next, dropped, lost, again, failed>>
vars == <<queue, batch, phase, stored, histVars>>

Init ==
  /\ queue = <<>> /\ batch = <<>>
  /\ phase = "timer"
  /\ stored = <<>>
  /\ next = 1 /\ dropped = {} /\ lost = {} /\ again = {} /\ failed = 0

Items(s) == {s[i] : i \in DOMAIN s}

-----------------------------------------------------------------------------
\* Mutant: a full queue loses its oldest outcome without counting it.
enqueue_silent ==
  /\ next <= MaxOutcome
  /\ queue' = Append(IF Len(queue) >= MaxSize THEN Tail(queue) ELSE queue, next)
  /\ next' = next + 1
  /\ UNCHANGED <<batch, phase, stored, dropped, lost, again, failed>>

\* Mutant: the overflow is tested for after the outcome was appended.
enqueue_late ==
  /\ next <= MaxOutcome
  /\ queue' = Append(IF Len(queue) > MaxSize THEN Tail(queue) ELSE queue, next)
  /\ dropped' = IF Len(queue) > MaxSize THEN dropped \cup {Head(queue)} ELSE dropped
  /\ next' = next + 1
  /\ UNCHANGED <<batch, phase, stored, lost, again, failed>>

\* A full queue drops its oldest outcome.
enqueue ==
  /\ next <= MaxOutcome
  /\ queue' = Append(IF Len(queue) >= MaxSize THEN Tail(queue) ELSE queue, next)
  /\ dropped' = IF Len(queue) >= MaxSize THEN dropped \cup {Head(queue)} ELSE dropped
  /\ next' = next + 1
  /\ UNCHANGED <<batch, phase, stored, lost, again, failed>>

\* flush takes the whole queue and leaves an empty one.
flush ==
  /\ batch = <<>> /\ queue # <<>>
  /\ batch' = queue
  /\ queue' = <<>>
  /\ UNCHANGED <<stored, histVars>>

\* Mutant: the flusher's loop ends with its first failing flush.
TimerGivesUp == phase = "timer" /\ failed = 0 /\ flush /\ UNCHANGED phase

\* _run_flusher, every flush_interval seconds
TimerFlush == phase = "timer" /\ flush /\ UNCHANGED phase

\* _write_batch commits.
Written ==
  /\ batch # <<>>
  /\ stored' = stored \o batch
  /\ batch' = <<>>
  /\ UNCHANGED <<queue, phase, histVars>>

\* Mutant: a failed batch goes to the end of the queue.
RequeueLast == queue' = queue \o batch

\* The failed batch goes back to the left end, in its order, whatever is there.
Requeue == queue' = batch \o queue

\* Mutant: every outcome of the batch counts as a failed flush.
FlushRaisesCounting ==
  /\ batch # <<>>
  /\ "db" \in Faults /\ failed < MaxErrors
  /\ failed' = failed + Len(batch)
  /\ Requeue
  /\ batch' = <<>>
  /\ UNCHANGED <<phase, stored, next, dropped, lost, again>>

FlushRaises ==
  /\ batch # <<>>
  /\ "db" \in Faults /\ failed < MaxErrors
  /\ failed' = failed + 1
  /\ Requeue
  /\ batch' = <<>>
  /\ UNCHANGED <<phase, stored, next, dropped, lost, again>>

FlushRaisesLate ==
  /\ batch # <<>>
  /\ "lost_reply" \in Faults /\ failed < MaxErrors
  /\ failed' = failed + 1
  /\ stored' = stored \o batch
  /\ again' = again \cup Items(batch)
  /\ Requeue
  /\ batch' = <<>>
  /\ UNCHANGED <<phase, next, dropped, lost>>

\* stop() cancels the flusher; CancelledError passes the except of a flush
\* under way. Its transaction is rolled back, unless the commit was sent.
Stop ==
  /\ phase = "timer"
  /\ phase' = "stop"
  /\ batch' = <<>>
  /\ \/ stored' = stored \o batch /\ UNCHANGED lost
     \/ lost' = lost \cup Items(batch) /\ UNCHANGED stored
  /\ UNCHANGED <<queue, next, dropped, again, failed>>

\* ... and flushes what is pending.
StopFlush ==
  /\ phase = "stop"
  /\ phase' = "stopped"
  /\ flush \/ (queue = <<>> /\ UNCHANGED <<queue, batch, stored, histVars>>)

Next ==
  enqueue \/ TimerFlush \/ Written \/ FlushRaises \/ FlushRaisesLate \/ Stop \/ StopFlush

Spec == Init /\ [][Next]_vars

\* The event loop resumes every coroutine, and the timer wakes up.
FairSpec == Spec /\ WF_vars(TimerFlush) /\ WF_vars(StopFlush) /\ WF_vars(Written)

-----------------------------------------------------------------------------
(* Properties. *)

\* Every variable holds outcomes that were enqueued, or a state of the flusher.
TypeOK ==
  /\ next \in 1..(MaxOutcome + 1)
  /\ queue \in Seq(1..(next - 1)) /\ batch \in Seq(1..(next - 1)) /\ stored \in Seq(1..(next - 1))
  /\ phase \in {"timer", "stop", "stopped"}
  /\ dropped \subseteq 1..(next - 1) /\ lost \subseteq 1..(next - 1)
  /\ again \subseteq 1..(next - 1)
  /\ failed \in 0..MaxErrors

\* No outcome disappears silently: it is pending, in the batch being written,
\* stored, or was dropped by a counted overflow; or its batch was cancelled by
\* stop().
Accounted ==
  1..(next - 1) = Items(queue) \cup Items(batch) \cup Items(stored) \cup dropped \cup lost

\* The queue exceeds maxsize by at most one maxsize for every failed flush: a
\* failed batch is put back without looking at the limit, enqueue never adds to
\* a full queue.
Bounded ==
  /\ Len(batch) <= MaxSize * (failed + 1)
  /\ IF batch = <<>> THEN Len(queue) <= MaxSize * (failed + 1) ELSE Len(queue) <= MaxSize

\* What is still to be written comes in the order of enqueue, and after
\* everything stored so far: a failed flush neither reorders outcomes nor writes
\* one twice, but for a batch whose commit was applied and its reply lost.
Ordered ==
  LET pending == batch \o queue
  IN  /\ \A i, j \in DOMAIN pending : i < j => pending[i] < pending[j]
      /\ \A i \in DOMAIN pending, k \in DOMAIN stored :
           stored[k] \in again \/ stored[k] < pending[i]

\* Every outcome is stored or dropped in the end, unless stop() comes first.
Flushed ==
  \A n \in 1..MaxOutcome :
    (n < next) ~> (n \in Items(stored) \cup dropped \/ phase # "timer")
=============================================================================
