---------------------------- MODULE UsageRecorder ----------------------------
(***************************************************************************)
(* The BrsApi usage recorder (brsapi/usage_recorder.py) of one API process:*)
(* granted requests are counted per Tehran day in memory and flushed to the*)
(* table brsapi_daily_usage by a timer, by the admin endpoint and by the   *)
(* shutdown of the application.                                            *)
(*                                                                         *)
(* One step is what a coroutine does up to its next await. The counters of *)
(* a day are an object: a flush keeps references to the objects it found,  *)
(* so what is added to one of them before the flush reads it is flushed as *)
(* well. The counts of blocks and the timestamps travel with the count and *)
(* are left out; so is the death of the process, which loses its memory.   *)
(***************************************************************************)
EXTENDS Integers, Sequences, FiniteSets

CONSTANTS
  LastDay,    \* bound: days 1..LastDay
  MaxUsed,    \* bound: requests recorded in one behaviour
  MaxErrors,  \* bound: database failures in one behaviour
  Faults      \* what may go wrong in this instance

FaultKind ==
  {"db",          \* a statement or the commit raises, nothing is stored
   "lost_reply"}  \* the commit raises after it was applied

ASSUME BoundAssumption ==
  /\ LastDay \in Nat \ {0} /\ MaxUsed \in Nat /\ MaxErrors \in Nat
  /\ Faults \subseteq FaultKind

Day == 1..LastDay

\* Who calls flush: the background timer, the admin endpoint, stop()
Flusher == {"timer", "admin", "stop"}

VARIABLES
  today,    \* the Tehran day
  heap,     \* the counts of all entry objects made so far
  days,     \* _days: the object of each day, 0 for none
  table,    \* request_count of each row of brsapi_daily_usage
  stopped,  \* how far stop() is: "no", "cancelled" (the timer), "done" (it
            \* took what its flush is to write), "failed" (that flush raised)
  pc,       \* where each flush is
  snap,     \* the objects a flush found, 0 for none
  at,       \* the day whose upsert it has sent
  read,     \* the count in that upsert
  tx,       \* what its transaction added to each row
  used,     \* history: requests recorded of each day
  late,     \* history: those recorded while a flush of that day was under way
  twice,    \* history: days a count may be flushed of twice
  errors    \* database failures so far

memoryVars == <<today, heap, days>>
flushVars == <<pc, snap, at, read, tx>>
histVars == <<used, late, twice, errors>>
vars == <<memoryVars, table, stopped, flushVars, histVars>>

None == [d \in Day |-> 0]
Busy == {"execute", "commit", "pop"}
Days(f) == {d \in Day : snap[f][d] # 0}
Mem(d) == IF days[d] = 0 THEN 0 ELSE heap[days[d]]

Init ==
  /\ today = 1 /\ heap = <<>> /\ days = None
  /\ table = None
  /\ stopped = "no"
  /\ pc = [f \in Flusher |-> "idle"]
  /\ snap = [f \in Flusher |-> None]
  /\ at = [f \in Flusher |-> 0]
  /\ read = [f \in Flusher |-> 0]
  /\ tx = [f \in Flusher |-> None]
  /\ used = None /\ late = None /\ twice = {} /\ errors = 0

Goto(f, label) == pc' = [pc EXCEPT ![f] = label]

\* The flush returns or raises; a transaction it left open is rolled back.
End(f) ==
  /\ Goto(f, "idle")
  /\ snap' = [snap EXCEPT ![f] = None]
  /\ at' = [at EXCEPT ![f] = 0]
  /\ read' = [read EXCEPT ![f] = 0]
  /\ tx' = [tx EXCEPT ![f] = None]

Fail(kind) == kind \in Faults /\ errors < MaxErrors /\ errors' = errors + 1

-----------------------------------------------------------------------------
NewDay ==
  /\ today < LastDay
  /\ today' = today + 1
  /\ UNCHANGED <<heap, days, table, stopped, flushVars, histVars>>

\* Mutant: one entry object shared by all days.
record_shared ==
  /\ used[today] < MaxUsed
  /\ heap' = IF heap = <<>> THEN <<1>> ELSE [heap EXCEPT ![1] = @ + 1]
  /\ days' = [days EXCEPT ![today] = 1]
  /\ used' = [used EXCEPT ![today] = @ + 1]
  /\ UNCHANGED <<today, table, stopped, flushVars, late, twice, errors>>

\* setdefault(tehran_today(), _new_entry()), then the count
record_used ==
  /\ used[today] < MaxUsed
  /\ IF days[today] = 0
       THEN /\ heap' = Append(heap, 1)
            /\ days' = [days EXCEPT ![today] = Len(heap) + 1]
       ELSE /\ heap' = [heap EXCEPT ![days[today]] = @ + 1]
            /\ UNCHANGED days
  /\ used' = [used EXCEPT ![today] = @ + 1]
  /\ late' = IF \E f \in Flusher : today \in Days(f)
               THEN [late EXCEPT ![today] = @ + 1] ELSE late
  /\ UNCHANGED <<today, table, stopped, flushVars, twice, errors>>

-----------------------------------------------------------------------------
(* flush *)

\* The day's count as it is now goes into the statement that is sent.
Send(f, objects, d) ==
  /\ Goto(f, "execute")
  /\ at' = [at EXCEPT ![f] = d]
  /\ read' = [read EXCEPT ![f] = heap[objects[d]]]

First(objects, D) == CHOOSE d \in D : objects[d] # 0 /\ \A b \in D : objects[b] # 0 => d <= b

\* days = dict(self._days), up to the first execute
flush(f) ==
  /\ pc[f] = "idle"
  /\ days # None
  /\ snap' = [snap EXCEPT ![f] = days]
  /\ Send(f, days, First(days, Day))
  /\ twice' = IF \E g \in Flusher : Days(g) # {}
                THEN twice \cup {d \in Day : days[d] # 0} ELSE twice
  /\ UNCHANGED <<memoryVars, table, tx, used, late, errors>>

\* The upsert of one day waits for a transaction that wrote the same row.
Execute(f) ==
  /\ pc[f] = "execute"
  /\ \A g \in Flusher \ {f} : tx[g][at[f]] = 0
  /\ tx' = [tx EXCEPT ![f] = [@ EXCEPT ![at[f]] = read[f]]]
  /\ LET rest == {d \in Days(f) : d > at[f]}
     IN  IF rest = {}
           THEN Goto(f, "commit") /\ UNCHANGED <<at, read>>
           ELSE Send(f, snap[f], First(snap[f], rest))
  /\ UNCHANGED <<memoryVars, table, stopped, snap, histVars>>

\* request_count + EXCLUDED.request_count
Store(f) == table' = [d \in Day |-> table[d] + tx[f][d]]

\* The commit is applied; the session is closed before flush goes on.
Commit(f) ==
  /\ pc[f] = "commit"
  /\ Store(f)
  /\ tx' = [tx EXCEPT ![f] = None]
  /\ Goto(f, "pop")
  /\ UNCHANGED <<memoryVars, stopped, snap, at, read, histVars>>

\* Mutant: the committed counters stay in memory.
KeepDays(f) ==
  /\ pc[f] = "pop"
  /\ End(f)
  /\ UNCHANGED <<memoryVars, table, stopped, histVars>>

\* self._days.pop(day) for every day of the snapshot
Pop(f) ==
  /\ pc[f] = "pop"
  /\ days' = [d \in Day |-> IF d \in Days(f) THEN 0 ELSE days[d]]
  /\ End(f)
  /\ UNCHANGED <<today, heap, table, stopped, histVars>>

\* Mutant: the days are forgotten although the flush failed.
RaiseForgets(f) ==
  /\ pc[f] \in {"execute", "commit"}
  /\ Fail("db")
  /\ days' = [d \in Day |-> IF d \in Days(f) THEN 0 ELSE days[d]]
  /\ End(f)
  /\ UNCHANGED <<today, heap, table, stopped, used, late, twice>>

\* flush reports the error; nobody flushes again what stop() could not.
Reported(f) == stopped' = IF f = "stop" THEN "failed" ELSE stopped

\* A statement or the commit raises: the counters are kept.
Raise(f) ==
  /\ pc[f] \in {"execute", "commit"}
  /\ Fail("db")
  /\ End(f)
  /\ Reported(f)
  /\ UNCHANGED <<memoryVars, table, used, late, twice>>

RaiseAfterCommit(f) ==
  /\ pc[f] = "commit"
  /\ Fail("lost_reply")
  /\ Store(f)
  /\ twice' = twice \cup Days(f)
  /\ End(f)
  /\ Reported(f)
  /\ UNCHANGED <<memoryVars, used, late>>

\* _run_flusher sleeps and flushes until it is cancelled.
TimerFlush == stopped = "no" /\ flush("timer") /\ UNCHANGED stopped

AdminFlush == flush("admin") /\ UNCHANGED stopped

\* stop() cancels the timer's coroutine at the await it is at, and waits for it
\* to end; a commit that was already sent may be applied.
Stop ==
  /\ stopped = "no"
  /\ stopped' = "cancelled"
  /\ IF pc["timer"] = "idle" THEN UNCHANGED flushVars ELSE End("timer")
  /\ \/ /\ pc["timer"] = "commit"
        /\ Store("timer")
        /\ twice' = twice \cup Days("timer")
     \/ /\ UNCHANGED table
        /\ twice' = IF pc["timer"] = "pop" THEN twice \cup Days("timer") ELSE twice
  /\ UNCHANGED <<memoryVars, used, late, errors>>

\* Mutant: stop() only cancels the timer.
StopOnly ==
  /\ stopped = "cancelled"
  /\ stopped' = "done"
  /\ UNCHANGED <<memoryVars, table, flushVars, histVars>>

\* ... and flushes what is pending.
StopFlush ==
  /\ stopped = "cancelled"
  /\ stopped' = "done"
  /\ flush("stop") \/ (days = None /\ UNCHANGED <<memoryVars, table, flushVars, histVars>>)

FlushStep(f) == Execute(f) \/ Commit(f) \/ Pop(f)

Next ==
  \/ NewDay \/ record_used
  \/ TimerFlush \/ AdminFlush \/ Stop \/ StopFlush
  \/ \E f \in Flusher : FlushStep(f) \/ Raise(f) \/ RaiseAfterCommit(f)

Spec == Init /\ [][Next]_vars

\* The event loop resumes every coroutine; the timer wakes up every minute, the
\* endpoint need not be called and the application need not stop.
FairSpec ==
  /\ Spec
  /\ WF_vars(TimerFlush) /\ WF_vars(StopFlush)
  /\ \A f \in Flusher : WF_vars(FlushStep(f))

-----------------------------------------------------------------------------
(* Properties. *)

\* A flush under way holds an object of the day it is at; two transactions
\* never hold the same row; a day in memory has an object of its own.
TypeOK ==
  /\ today \in Day
  /\ heap \in Seq(Nat \ {0})
  /\ days \in [Day -> 0..Len(heap)]
  /\ \A d, b \in Day : days[d] = days[b] /\ days[d] # 0 => d = b
  /\ table \in [Day -> Nat]
  /\ stopped \in {"no", "cancelled", "done", "failed"}
  /\ pc \in [Flusher -> Busy \cup {"idle"}]
  /\ snap \in [Flusher -> [Day -> 0..Len(heap)]]
  /\ at \in [Flusher -> 0..LastDay]
  /\ read \in [Flusher -> Nat]
  /\ tx \in [Flusher -> [Day -> Nat]]
  /\ \A f \in Flusher : IF pc[f] = "idle" THEN Days(f) = {} ELSE at[f] \in Days(f)
  /\ \A f, g \in Flusher : \A d \in Day : tx[f][d] > 0 /\ tx[g][d] > 0 => f = g
  /\ used \in [Day -> Nat] /\ late \in [Day -> Nat]
  /\ twice \subseteq Day
  /\ errors \in 0..MaxErrors

\* What was recorded while no flush of that day was under way is in memory or
\* in the table, whatever flushes overlap, fail or are cancelled. (What is
\* recorded during a flush may be forgotten with the day: flush pops the
\* object it read earlier.)
QuietCounted == \A d \in Day : used[d] - late[d] <= table[d] + Mem(d)

\* Some flush has stored the day and will forget it in its next step.
Storing(d) == \E f \in Flusher : pc[f] = "pop" /\ d \in Days(f)

\* No request is counted twice as long as flushes do not overlap and none ends
\* between its commit and the pop (cancelled by stop, or the reply lost).
CountedOnce ==
  \A d \in Day : d \notin twice =>
    table[d] + (IF Storing(d) THEN 0 ELSE Mem(d)) <= used[d]

\* What is in memory before stop() takes its last snapshot is flushed in the
\* end, by the timer, by the endpoint or by stop() itself, whatever failures
\* the database had before, unless that last flush of stop() fails. (A day
\* that comes into memory after the snapshot has nobody left to flush it.)
Drains ==
  \A d \in Day :
    (days[d] # 0 /\ stopped \in {"no", "cancelled"}) ~> (days[d] = 0 \/ stopped = "failed")
=============================================================================
