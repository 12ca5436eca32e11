------------------------- MODULE UsageRecorderProofs ------------------------
(***************************************************************************)
(* Proofs about the BrsApi usage recorder, for every number of days,       *)
(* requests and database failures.                                         *)
(***************************************************************************)
EXTENDS UsageRecorder, WellFoundedInduction, TLAPS

-----------------------------------------------------------------------------
(* The inductive invariants. *)

\* What was recorded of a day while no flush of it was under way.
Quiet(d) == used[d] - late[d]

\* The count of day d that flush f has in its hands: what its transaction
\* holds, what the statement it has sent says, or what the object of the day
\* still counts; after the commit, nothing.
Carried(f, d) ==
  IF pc[f] = "pop" THEN 0
  ELSE IF pc[f] = "commit" \/ d < at[f] THEN tx[f][d]
  ELSE IF d = at[f] THEN read[f]
  ELSE heap[snap[f][d]]

\* A flush that has found a day covers, with the table, what was recorded of
\* the day before: it may forget the day once it has committed.
Covers == \A f \in Flusher : \A d \in Days(f) : Quiet(d) <= table[d] + Carried(f, d)

\* A day no flush may count twice is in the hands of one flush at most, which
\* holds the object in memory and not more than its count.
Alone(f, d) ==
  /\ \A g \in Flusher : d \in Days(g) => g = f
  /\ days[d] = snap[f][d]
  /\ tx[f][d] <= heap[snap[f][d]]
  /\ at[f] = d => read[f] <= heap[snap[f][d]]

OneHand == \A f \in Flusher : \A d \in Days(f) : d \notin twice => Alone(f, d)

\* Only a flush before its commit has something in its transaction.
Open ==
  \A f \in Flusher, d \in Day : tx[f][d] # 0 =>
    pc[f] \in {"execute", "commit"} /\ d \in Days(f)

-----------------------------------------------------------------------------
(* Types. *)

\* The first day with an object is one of the days (dict order of the days).
LEMMA FirstIn ==
  ASSUME NEW n \in Nat, NEW objects \in [Day -> 0..n], NEW D \in SUBSET Day,
         \E d \in D : objects[d] # 0
  PROVE  /\ First(objects, D) \in D /\ objects[First(objects, D)] # 0
         /\ \A b \in D : objects[b] # 0 => First(objects, D) <= b
<1> DEFINE T == {d \in D : objects[d] # 0}
<1>1. T \in SUBSET Nat /\ T # {}
  <2>1. Day \subseteq Nat
    BY BoundAssumption DEF Day
  <2> QED BY <2>1
<1>2. \E x \in T : \A y \in T : ~ (<<y, x>> \in OpToRel(<, Nat))
  BY <1>1, NatLessThanWellFounded, WFMin
<1>3. ASSUME NEW x \in T, NEW y \in T, ~ (<<y, x>> \in OpToRel(<, Nat)) PROVE x <= y
  BY <1>1, <1>3 DEF OpToRel
<1>4. \E d \in D : objects[d] # 0 /\ \A b \in D : objects[b] # 0 => d <= b
  BY <1>2, <1>3
<1> QED BY <1>4 DEF First

\* Only flush f moves.
Others(f) ==
  \A g \in Flusher \ {f} :
    /\ pc'[g] = pc[g] /\ snap'[g] = snap[g] /\ at'[g] = at[g]
    /\ read'[g] = read[g] /\ tx'[g] = tx[g]

PerFlusher ==
  /\ pc = [f \in Flusher |-> pc[f]] /\ snap = [f \in Flusher |-> snap[f]]
  /\ at = [f \in Flusher |-> at[f]] /\ read = [f \in Flusher |-> read[f]]
  /\ tx = [f \in Flusher |-> tx[f]]

MemoryType ==
  /\ today \in Day
  /\ heap \in Seq(Nat \ {0})
  /\ days \in [Day -> 0..Len(heap)]
  /\ \A d, b \in Day : days[d] = days[b] /\ days[d] # 0 => d = b

\* The shape of one flush, given the number of objects.
OneFlush(f, n) ==
  /\ pc[f] \in Busy \cup {"idle"}
  /\ snap[f] \in [Day -> 0..n] /\ at[f] \in 0..LastDay /\ read[f] \in Nat
  /\ tx[f] \in [Day -> Nat]
  /\ IF pc[f] = "idle" THEN Days(f) = {} ELSE at[f] \in Days(f)

FlushType ==
  /\ PerFlusher
  /\ \A f \in Flusher : OneFlush(f, Len(heap))

Exclusive == \A f, g \in Flusher : \A d \in Day : tx[f][d] > 0 /\ tx[g][d] > 0 => f = g

RestType ==
  /\ table \in [Day -> Nat] /\ stopped \in {"no", "cancelled", "done", "failed"}
  /\ used \in [Day -> Nat] /\ late \in [Day -> Nat]
  /\ twice \subseteq Day /\ errors \in 0..MaxErrors

\* TypeOK is these parts.
LEMMA TypeParts == TypeOK <=> MemoryType /\ FlushType /\ Exclusive /\ RestType
<1>1. TypeOK => MemoryType /\ FlushType /\ Exclusive /\ RestType
  BY DEF TypeOK, MemoryType, FlushType, PerFlusher, OneFlush, Exclusive, RestType
<1>2. MemoryType /\ FlushType /\ Exclusive /\ RestType => TypeOK
  BY DEF TypeOK, MemoryType, FlushType, PerFlusher, OneFlush, Exclusive, RestType
<1> QED BY <1>1, <1>2

LEMMA TypePartsNext == MemoryType' /\ FlushType' /\ Exclusive' /\ RestType' => TypeOK'
BY TypeParts, PTL

\* A flush that ends has nothing any more.
LEMMA EndEffect ==
  ASSUME TypeOK, NEW f \in Flusher, End(f)
  PROVE  /\ Others(f) /\ pc'[f] = "idle" /\ snap'[f] = None /\ at'[f] = 0
         /\ read'[f] = 0 /\ tx'[f] = None
         /\ PerFlusher'
<1>1. /\ pc' = [pc EXCEPT ![f] = "idle"] /\ snap' = [snap EXCEPT ![f] = None]
      /\ at' = [at EXCEPT ![f] = 0] /\ read' = [read EXCEPT ![f] = 0]
      /\ tx' = [tx EXCEPT ![f] = None]
  BY DEF End, Goto
<1>2. /\ DOMAIN pc = Flusher /\ DOMAIN snap = Flusher /\ DOMAIN at = Flusher
      /\ DOMAIN read = Flusher /\ DOMAIN tx = Flusher
  BY DEF TypeOK
<1> QED BY <1>1, <1>2 DEF Others, PerFlusher

\* A flush that did not move keeps its shape while objects are only added.
LEMMA FlushStays ==
  ASSUME NEW g \in Flusher, NEW n \in Nat, NEW k \in Nat, n <= k, OneFlush(g, n),
         pc'[g] = pc[g], snap'[g] = snap[g], at'[g] = at[g], read'[g] = read[g], tx'[g] = tx[g]
  PROVE  OneFlush(g, k)'
<1>1. Days(g)' = Days(g)
  BY DEF Days
<1>2. snap[g] \in [Day -> 0..k]
  BY DEF OneFlush
<1> QED BY <1>1, <1>2 DEF OneFlush

\* An ended flush has the shape of an idle one.
LEMMA FlushEnded ==
  ASSUME NEW f \in Flusher, NEW n \in Nat, pc'[f] = "idle", snap'[f] = None,
         at'[f] = 0, read'[f] = 0, tx'[f] = None
  PROVE  OneFlush(f, n)'
<1>1. None \in [Day -> 0..n] /\ None \in [Day -> Nat] /\ \A d \in Day : None[d] = 0
  BY DEF None
<1>2. Days(f)' = {}
  BY <1>1 DEF Days
<1>3. 0 \in 0..LastDay
  BY BoundAssumption
<1> QED BY <1>1, <1>2, <1>3 DEF OneFlush

\* A flush starts with the objects in memory, at the first of their days.
LEMMA FlushEffect ==
  ASSUME TypeOK, NEW f \in Flusher, flush(f)
  PROVE  /\ Others(f) /\ pc[f] = "idle" /\ pc'[f] = "execute" /\ snap'[f] = days
         /\ at'[f] \in Day /\ days[at'[f]] # 0
         /\ \A d \in Day : days[d] # 0 => at'[f] <= d
         /\ read'[f] = heap[days[at'[f]]] /\ tx'[f] = tx[f]
         /\ PerFlusher'
         /\ UNCHANGED <<today, heap, days, table, used, late, errors>>
         /\ twice' = IF \E g \in Flusher : Days(g) # {}
                       THEN twice \cup {d \in Day : days[d] # 0} ELSE twice
<1>0. /\ DOMAIN pc = Flusher /\ DOMAIN snap = Flusher /\ DOMAIN at = Flusher
      /\ DOMAIN read = Flusher /\ DOMAIN tx = Flusher /\ tx = [g \in Flusher |-> tx[g]]
      /\ days \in [Day -> 0..Len(heap)] /\ Len(heap) \in Nat
  BY DEF TypeOK
<1>1. \E d \in Day : days[d] # 0
  BY <1>0 DEF flush, None
<1> DEFINE a == First(days, Day)
<1>2. a \in Day /\ days[a] # 0 /\ \A d \in Day : days[d] # 0 => a <= d
  BY <1>0, <1>1, FirstIn
<1>3. /\ pc' = [pc EXCEPT ![f] = "execute"] /\ snap' = [snap EXCEPT ![f] = days]
      /\ at' = [at EXCEPT ![f] = a] /\ read' = [read EXCEPT ![f] = heap[days[a]]] /\ tx' = tx
  BY DEF flush, Send, Goto
<1> HIDE DEF a
<1>4. at'[f] = a
  BY <1>0, <1>3
<1>5. /\ Others(f) /\ pc'[f] = "execute" /\ snap'[f] = days
      /\ read'[f] = heap[days[a]] /\ tx'[f] = tx[f]
      /\ PerFlusher'
  BY <1>0, <1>3 DEF Others, PerFlusher
<1>6. /\ UNCHANGED <<today, heap, days, table, used, late, errors>> /\ pc[f] = "idle"
      /\ twice' = IF \E g \in Flusher : Days(g) # {}
                    THEN twice \cup {d \in Day : days[d] # 0} ELSE twice
  BY DEF flush, memoryVars
<1> QED BY <1>2, <1>4, <1>5, <1>6

\* The upsert of a day goes into the transaction; the next day is sent, or the
\* commit.
LEMMA ExecuteEffect ==
  ASSUME TypeOK, NEW f \in Flusher, Execute(f)
  PROVE  /\ Others(f) /\ pc[f] = "execute" /\ snap'[f] = snap[f]
         /\ \A g \in Flusher \ {f} : tx[g][at[f]] = 0
         /\ tx'[f] = [tx[f] EXCEPT ![at[f]] = read[f]]
         /\ \/ /\ pc'[f] = "commit" /\ at'[f] = at[f] /\ read'[f] = read[f]
               /\ \A d \in Days(f) : d <= at[f]
            \/ /\ pc'[f] = "execute" /\ at'[f] \in Days(f) /\ at'[f] > at[f]
               /\ read'[f] = heap[snap[f][at'[f]]]
               /\ \A d \in Days(f) : d > at[f] => at'[f] <= d
         /\ PerFlusher'
         /\ UNCHANGED <<today, heap, days, table, stopped, used, late, twice, errors>>
<1>0. /\ DOMAIN pc = Flusher /\ DOMAIN snap = Flusher /\ DOMAIN at = Flusher
      /\ DOMAIN read = Flusher /\ DOMAIN tx = Flusher
      /\ snap = [g \in Flusher |-> snap[g]] /\ at = [g \in Flusher |-> at[g]]
      /\ read = [g \in Flusher |-> read[g]]
      /\ snap[f] \in [Day -> 0..Len(heap)] /\ Len(heap) \in Nat
      /\ tx[f] \in [Day -> Nat] /\ at[f] \in 0..LastDay
  BY DEF TypeOK
<1> DEFINE rest == {d \in Days(f) : d > at[f]}
           a == First(snap[f], rest)
<1>1. rest # {} => a \in rest /\ \A d \in rest : a <= d
  <2> SUFFICES ASSUME rest # {} PROVE a \in rest /\ \A d \in rest : a <= d
    OBVIOUS
  <2>1. rest \in SUBSET Day /\ \A d \in rest : snap[f][d] # 0
    BY DEF Days
  <2> HIDE DEF rest
  <2>2. PICK n \in Nat : n = Len(heap)
    BY <1>0
  <2>3. snap[f] \in [Day -> 0..n]
    BY <1>0, <2>2
  <2>4. \E d \in rest : snap[f][d] # 0
    BY <2>1
  <2>5. /\ First(snap[f], rest) \in rest
        /\ \A b \in rest : snap[f][b] # 0 => First(snap[f], rest) <= b
    BY <2>1, <2>3, <2>4, FirstIn
  <2> QED BY <2>1, <2>5
<1>2. tx' = [tx EXCEPT ![f] = [tx[f] EXCEPT ![at[f]] = read[f]]]
  BY <1>0 DEF Execute
<1>3. /\ tx'[f] = [tx[f] EXCEPT ![at[f]] = read[f]] /\ tx' = [g \in Flusher |-> tx'[g]]
      /\ \A g \in Flusher \ {f} : tx'[g] = tx[g]
  BY <1>0, <1>2
<1>4. /\ UNCHANGED <<today, heap, days, table, stopped, used, late, twice, errors>>
      /\ pc[f] = "execute" /\ snap' = snap /\ \A g \in Flusher \ {f} : tx[g][at[f]] = 0
  BY DEF Execute, memoryVars, histVars
<1>5. CASE rest = {}
  <2>1. pc' = [pc EXCEPT ![f] = "commit"] /\ at' = at /\ read' = read
    BY <1>5 DEF Execute, Goto
  <2>2. \A d \in Days(f) : d <= at[f]
    BY <1>0, <1>5 DEF Days, Day
  <2>3. /\ pc'[f] = "commit" /\ pc' = [g \in Flusher |-> pc'[g]]
        /\ \A g \in Flusher \ {f} : pc'[g] = pc[g]
    BY <1>0, <2>1
  <2> QED BY <1>0, <1>3, <1>4, <2>1, <2>2, <2>3 DEF Others, PerFlusher
<1>6. CASE rest # {}
  <2>1. /\ pc' = [pc EXCEPT ![f] = "execute"] /\ at' = [at EXCEPT ![f] = a]
        /\ read' = [read EXCEPT ![f] = heap[snap[f][a]]]
    BY <1>6 DEF Execute, Send, Goto
  <2>2. a \in Days(f) /\ a > at[f] /\ \A d \in Days(f) : d > at[f] => a <= d
    BY <1>1, <1>6
  <2> HIDE DEF a
  <2>3. /\ at'[f] = a /\ read'[f] = heap[snap[f][a]] /\ pc'[f] = "execute"
        /\ \A g \in Flusher \ {f} : pc'[g] = pc[g] /\ at'[g] = at[g] /\ read'[g] = read[g]
        /\ pc' = [g \in Flusher |-> pc'[g]] /\ at' = [g \in Flusher |-> at'[g]]
        /\ read' = [g \in Flusher |-> read'[g]]
    BY <1>0, <2>1
  <2>4. Others(f)
    BY <1>3, <1>4, <2>3 DEF Others
  <2>5. /\ at'[f] \in Days(f) /\ at'[f] > at[f] /\ read'[f] = heap[snap[f][at'[f]]]
        /\ \A d \in Days(f) : d > at[f] => at'[f] <= d
    BY <2>2, <2>3
  <2>6. snap'[f] = snap[f] /\ snap' = [g \in Flusher |-> snap'[g]]
    BY <1>0, <1>4
  <2>7. PerFlusher'
    BY <1>0, <1>2, <1>4, <2>1 DEF PerFlusher
  <2> QED BY <1>3, <1>4, <2>3, <2>4, <2>5, <2>6, <2>7
<1> QED BY <1>5, <1>6

-----------------------------------------------------------------------------
(* The kinds of steps. *)

\* Only the clock, the application's stop or the error count move.
Aside == UNCHANGED <<heap, days, table, flushVars, used, late, twice>>

\* A flush ends without forgetting its days: it is rolled back, or it has
\* committed and its days may be counted twice.
Abort(f) ==
  /\ End(f)
  /\ UNCHANGED <<heap, days, used, late>>
  /\ \/ /\ table' = table
        /\ twice' = twice \/ twice' = twice \cup Days(f)
        /\ pc[f] = "pop" => Days(f) \subseteq twice'
     \/ /\ pc[f] = "commit" /\ Store(f)
        /\ twice' = twice \cup Days(f)

Moves(f) == flush(f) \/ Execute(f) \/ Commit(f) \/ Pop(f) \/ Abort(f)

\* The cancelled timer aborts its flush or had none under way.
LEMMA StopKind == ASSUME Stop PROVE Aside \/ Abort("timer")
<1>1. /\ UNCHANGED <<heap, days, used, late>>
      /\ IF pc["timer"] = "idle" THEN UNCHANGED flushVars ELSE End("timer")
      /\ \/ /\ pc["timer"] = "commit" /\ Store("timer")
            /\ twice' = twice \cup Days("timer")
         \/ /\ table' = table
            /\ twice' = IF pc["timer"] = "pop" THEN twice \cup Days("timer") ELSE twice
  BY DEF Stop, memoryVars
<1>2. CASE pc["timer"] = "idle"
  BY <1>1, <1>2 DEF Aside
<1>3. CASE pc["timer"] # "idle"
  <2>1. End("timer")
    BY <1>1, <1>3
  <2>2. CASE pc["timer"] = "commit" /\ Store("timer") /\ twice' = twice \cup Days("timer")
    BY <1>1, <2>1, <2>2 DEF Abort
  <2>3. CASE /\ table' = table
             /\ twice' = IF pc["timer"] = "pop" THEN twice \cup Days("timer") ELSE twice
    BY <1>1, <2>1, <2>3 DEF Abort
  <2> QED BY <1>1, <2>2, <2>3
<1> QED BY <1>2, <1>3

\* Every step is of one of these kinds.
LEMMA StepKinds ==
  ASSUME TypeOK, [Next]_vars
  PROVE  /\ Aside \/ record_used \/ \E f \in Flusher : Moves(f)
         /\ today' \in Day /\ stopped' \in {"no", "cancelled", "done", "failed"}
         /\ errors' \in 0..MaxErrors
<1> USE DEF memoryVars, flushVars, histVars
<1>0. /\ today \in Day /\ stopped \in {"no", "cancelled", "done", "failed"} /\ errors \in 0..MaxErrors
      /\ "timer" \in Flusher /\ "admin" \in Flusher /\ "stop" \in Flusher
  BY DEF TypeOK, Flusher
<1>1. CASE UNCHANGED vars
  BY <1>0, <1>1 DEF vars, Aside
<1>2. CASE NewDay
  <2>1. today' \in Day
    BY <1>0, <1>2, BoundAssumption DEF NewDay, Day
  <2> QED BY <1>0, <1>2, <2>1 DEF NewDay, Aside
<1>3. CASE record_used
  BY <1>0, <1>3 DEF record_used
<1>4. CASE TimerFlush
  BY <1>0, <1>4 DEF TimerFlush, flush, Moves
<1>5. CASE AdminFlush
  BY <1>0, <1>5 DEF AdminFlush, flush, Moves
<1>6. CASE Stop
  <2>1. Aside \/ Moves("timer")
    BY <1>6, StopKind DEF Moves
  <2>2. today' = today /\ errors' = errors /\ stopped' = "cancelled"
    BY <1>6 DEF Stop
  <2> QED BY <1>0, <2>1, <2>2
<1>7. CASE StopFlush
  <2>1. stopped' = "done"
    BY <1>7 DEF StopFlush
  <2>2. CASE flush("stop")
    BY <1>0, <2>1, <2>2 DEF flush, Moves
  <2>3. CASE UNCHANGED <<memoryVars, table, flushVars, histVars>>
    BY <1>0, <2>1, <2>3 DEF Aside
  <2> QED BY <1>7, <2>2, <2>3 DEF StopFlush
<1>8. ASSUME NEW f \in Flusher, FlushStep(f) \/ Raise(f) \/ RaiseAfterCommit(f)
      PROVE  /\ Moves(f) /\ today' \in Day /\ stopped' \in {"no", "cancelled", "done", "failed"}
             /\ errors' \in 0..MaxErrors
  <2>1. CASE Execute(f)
    BY <1>0, <2>1 DEF Execute, Moves
  <2>2. CASE Commit(f)
    BY <1>0, <2>2 DEF Commit, Moves
  <2>3. CASE Pop(f)
    BY <1>0, <2>3 DEF Pop, Moves
  <2>4. ASSUME NEW kind, Fail(kind) PROVE errors' \in 0..MaxErrors
    BY <1>0, <2>4, BoundAssumption DEF Fail
  <2>5. CASE Raise(f)
    <3>1. Abort(f)
      BY <2>5 DEF Raise, Abort
    <3> QED BY <1>0, <2>4, <2>5, <3>1 DEF Raise, Reported, Moves
  <2>6. CASE RaiseAfterCommit(f)
    <3>1. Abort(f)
      BY <2>6 DEF RaiseAfterCommit, Abort
    <3> QED BY <1>0, <2>4, <2>6, <3>1 DEF RaiseAfterCommit, Reported, Moves
  <2> QED BY <1>8, <2>1, <2>2, <2>3, <2>5, <2>6 DEF FlushStep
<1> QED BY <1>1, <1>2, <1>3, <1>4, <1>5, <1>6, <1>7, <1>8 DEF Next

-----------------------------------------------------------------------------
(* What the other steps do. *)

\* Objects are only added and their counts only grow.
Grows ==
  /\ heap' \in Seq(Nat \ {0}) /\ Len(heap) <= Len(heap')
  /\ \A i \in 1..Len(heap) : heap[i] <= heap'[i]

\* A recorded request adds one to the object of its day and to no other.
LEMMA RecordEffect ==
  ASSUME TypeOK, record_used
  PROVE  /\ Grows
         /\ days' \in [Day -> 0..Len(heap')] /\ days'[today] # 0
         /\ \A d \in Day : days[d] # 0 => days'[d] = days[d]
         /\ \A d \in Day \ {today} : days'[d] = days[d]
         /\ \A d \in Day : days'[d] # 0 => heap'[days'[d]] = IF d = today THEN Mem(d) + 1 ELSE Mem(d)
         /\ \A d, b \in Day : days'[d] = days'[b] /\ days'[d] # 0 => d = b
         /\ used' = [used EXCEPT ![today] = used[today] + 1]
         /\ late' = IF \E f \in Flusher : today \in Days(f)
                      THEN [late EXCEPT ![today] = late[today] + 1] ELSE late
         /\ today \in Day
         /\ UNCHANGED <<table, pc, snap, at, read, tx, twice>>
<1>0. /\ heap \in Seq(Nat \ {0}) /\ days \in [Day -> 0..Len(heap)] /\ today \in Day
      /\ \A d, b \in Day : days[d] = days[b] /\ days[d] # 0 => d = b
      /\ used \in [Day -> Nat] /\ late \in [Day -> Nat] /\ Len(heap) \in Nat
  BY DEF TypeOK
<1>1. /\ used' = [used EXCEPT ![today] = used[today] + 1]
      /\ late' = IF \E f \in Flusher : today \in Days(f)
                   THEN [late EXCEPT ![today] = late[today] + 1] ELSE late
      /\ UNCHANGED <<table, pc, snap, at, read, tx, twice>>
  BY <1>0 DEF record_used, flushVars
<1> DEFINE Goal ==
     /\ Grows
     /\ days' \in [Day -> 0..Len(heap')] /\ days'[today] # 0
     /\ \A d \in Day : days[d] # 0 => days'[d] = days[d]
     /\ \A d \in Day \ {today} : days'[d] = days[d]
     /\ \A d \in Day : days'[d] # 0 => heap'[days'[d]] = IF d = today THEN Mem(d) + 1 ELSE Mem(d)
     /\ \A d, b \in Day : days'[d] = days'[b] /\ days'[d] # 0 => d = b
<1>2. ASSUME days[today] = 0 PROVE Goal
  <2>1. heap' = Append(heap, 1) /\ days' = [days EXCEPT ![today] = Len(heap) + 1]
    BY <1>2 DEF record_used
  <2>2. /\ heap' \in Seq(Nat \ {0}) /\ Len(heap') = Len(heap) + 1
        /\ \A i \in 1..Len(heap) : heap'[i] = heap[i]
        /\ heap'[Len(heap) + 1] = 1
    BY <1>0, <2>1
  <2>3. /\ days' \in [Day -> 0..Len(heap')] /\ days'[today] = Len(heap) + 1
        /\ \A d \in Day \ {today} : days'[d] = days[d]
    BY <1>0, <2>1, <2>2
  <2>4. Grows
    BY <1>0, <2>2 DEF Grows
  <2>5. ASSUME NEW d \in Day, days'[d] # 0
        PROVE  heap'[days'[d]] = IF d = today THEN Mem(d) + 1 ELSE Mem(d)
    BY <1>0, <1>2, <2>2, <2>3, <2>5 DEF Mem
  <2>6. \A d, b \in Day : days'[d] = days'[b] /\ days'[d] # 0 => d = b
    BY <1>0, <2>3
  <2> QED BY <1>0, <1>2, <2>3, <2>4, <2>5, <2>6
<1>3. ASSUME days[today] # 0 PROVE Goal
  <2>1. /\ heap' = [heap EXCEPT ![days[today]] = heap[days[today]] + 1] /\ days' = days
        /\ days[today] \in 1..Len(heap)
    BY <1>0, <1>3 DEF record_used
  <2>2. /\ heap' \in Seq(Nat \ {0}) /\ Len(heap') = Len(heap)
        /\ \A i \in 1..Len(heap) : i # days[today] => heap'[i] = heap[i]
        /\ heap'[days[today]] = heap[days[today]] + 1
    BY <1>0, <2>1
  <2>3. \A i \in 1..Len(heap) : heap[i] \in Nat
    BY <1>0
  <2>4. Grows
    BY <1>0, <2>2, <2>3 DEF Grows
  <2>5. ASSUME NEW d \in Day, days'[d] # 0
        PROVE  heap'[days'[d]] = IF d = today THEN Mem(d) + 1 ELSE Mem(d)
    <3>1. days[d] \in 1..Len(heap) /\ days'[d] = days[d]
      BY <1>0, <2>1, <2>5
    <3>2. CASE d = today
      BY <2>1, <2>2, <3>1, <3>2 DEF Mem
    <3>3. CASE d # today
      <4>1. days[d] # days[today]
        BY <1>0, <3>1, <3>3
      <4> QED BY <2>2, <3>1, <3>3, <4>1 DEF Mem
    <3> QED BY <3>2, <3>3
  <2> QED BY <1>0, <1>3, <2>1, <2>2, <2>4, <2>5
<1>4. Goal
  BY <1>2, <1>3
<1> QED BY <1>0, <1>1, <1>4

\* The commit adds the transaction to the table and empties it.
LEMMA CommitEffect ==
  ASSUME TypeOK, NEW f \in Flusher, Commit(f)
  PROVE  /\ Others(f) /\ pc[f] = "commit" /\ pc'[f] = "pop" /\ snap'[f] = snap[f]
         /\ at'[f] = at[f] /\ read'[f] = read[f] /\ tx'[f] = None
         /\ table' = [d \in Day |-> table[d] + tx[f][d]]
         /\ PerFlusher'
         /\ UNCHANGED <<heap, days, used, late, twice>>
<1>0. /\ DOMAIN pc = Flusher /\ DOMAIN tx = Flusher
      /\ snap = [g \in Flusher |-> snap[g]] /\ at = [g \in Flusher |-> at[g]]
      /\ read = [g \in Flusher |-> read[g]]
  BY DEF TypeOK
<1>1. /\ pc' = [pc EXCEPT ![f] = "pop"] /\ tx' = [tx EXCEPT ![f] = None]
      /\ snap' = snap /\ at' = at /\ read' = read
      /\ table' = [d \in Day |-> table[d] + tx[f][d]] /\ pc[f] = "commit"
      /\ UNCHANGED <<heap, days, used, late, twice>>
  BY DEF Commit, Store, Goto, memoryVars, histVars
<1> QED BY <1>0, <1>1 DEF Others, PerFlusher

\* The committed days are forgotten and the flush ends.
LEMMA PopEffect ==
  ASSUME TypeOK, NEW f \in Flusher, Pop(f)
  PROVE  /\ End(f) /\ pc[f] = "pop"
         /\ days' = [d \in Day |-> IF d \in Days(f) THEN 0 ELSE days[d]]
         /\ UNCHANGED <<heap, table, used, late, twice>>
BY DEF Pop, histVars

-----------------------------------------------------------------------------
(* Type correctness. *)

\* If all flushes but f stand still and f keeps its shape, all have theirs.
LEMMA OneMoved ==
  ASSUME TypeOK, NEW f \in Flusher, Others(f), PerFlusher', heap' = heap,
         OneFlush(f, Len(heap))'
  PROVE  FlushType'
<1>1. Len(heap) \in Nat /\ \A g \in Flusher : OneFlush(g, Len(heap))
  <2>1. Len(heap) \in Nat
    BY DEF TypeOK
  <2> QED BY <2>1, TypeParts DEF FlushType
<1>2. ASSUME NEW g \in Flusher \ {f} PROVE OneFlush(g, Len(heap))'
  <2>1. /\ pc'[g] = pc[g] /\ snap'[g] = snap[g] /\ at'[g] = at[g] /\ read'[g] = read[g]
        /\ tx'[g] = tx[g]
    BY DEF Others
  <2>2. PICK n \in Nat : n = Len(heap)
    BY <1>1
  <2>3. OneFlush(g, n)'
    BY <1>1, <2>1, <2>2, FlushStays
  <2>4. n = Len(heap')
    BY <2>2
  <2> QED BY <2>3, <2>4
<1> QED BY <1>2 DEF FlushType

\* An ending flush frees its rows.
LEMMA EndType ==
  ASSUME TypeOK, NEW f \in Flusher, End(f), heap' = heap
  PROVE  FlushType' /\ Exclusive'
<1>1. /\ Others(f) /\ pc'[f] = "idle" /\ snap'[f] = None /\ at'[f] = 0
      /\ read'[f] = 0 /\ tx'[f] = None /\ PerFlusher'
  BY EndEffect
<1>2. PICK n \in Nat : n = Len(heap)
  BY DEF TypeOK
<1>3. OneFlush(f, n)'
  BY <1>1, FlushEnded
<1>4. OneFlush(f, Len(heap))'
  <2>1. n = Len(heap')
    BY <1>2
  <2> QED BY <1>3, <2>1
<1>5. FlushType'
  BY <1>1, <1>4, OneMoved
<1>6. Exclusive'
  <2>1. Exclusive
    BY TypeParts
  <2>2. \A d \in Day : tx'[f][d] = 0
    BY <1>1 DEF None
  <2> QED BY <1>1, <2>1, <2>2 DEF Exclusive, Others
<1> QED BY <1>5, <1>6

\* The committed counts are counts.
LEMMA StoreType ==
  ASSUME TypeOK, NEW f \in Flusher, Store(f)
  PROVE  table' \in [Day -> Nat] /\ \A d \in Day : table'[d] = table[d] + tx[f][d] /\ table[d] <= table'[d]
<1>1. table \in [Day -> Nat] /\ tx[f] \in [Day -> Nat]
  BY DEF TypeOK
<1>2. table' = [d \in Day |-> table[d] + tx[f][d]]
  BY DEF Store
<1>3. \A d \in Day : table[d] \in Nat /\ tx[f][d] \in Nat
  BY <1>1
<1>4. \A d \in Day : table'[d] = table[d] + tx[f][d]
  BY <1>2
<1>5. table' \in [Day -> Nat]
  BY <1>2, <1>3
<1> QED BY <1>3, <1>4, <1>5

\* recording
LEMMA RecordType ==
  ASSUME TypeOK, record_used, today' \in Day, stopped' \in {"no", "cancelled", "done", "failed"},
         errors' \in 0..MaxErrors
  PROVE  TypeOK'
<1>1. MemoryType'
  BY RecordEffect DEF MemoryType, Grows
<1>2. FlushType'
  <2>1. PICK n \in Nat, k \in Nat : n = Len(heap) /\ k = Len(heap') /\ n <= k
    <3>1. Len(heap) \in Nat /\ Len(heap') \in Nat /\ Len(heap) <= Len(heap')
      <4>1. Grows
        BY RecordEffect
      <4> QED BY <4>1 DEF TypeOK, Grows
    <3> QED BY <3>1
  <2>2. ASSUME NEW g \in Flusher PROVE OneFlush(g, Len(heap))'
    <3>1. OneFlush(g, n)
      BY <2>1, TypeParts DEF FlushType
    <3>2. /\ pc'[g] = pc[g] /\ snap'[g] = snap[g] /\ at'[g] = at[g] /\ read'[g] = read[g]
          /\ tx'[g] = tx[g]
      BY RecordEffect
    <3>3. OneFlush(g, k)'
      BY <2>1, <3>1, <3>2, FlushStays
    <3> QED BY <2>1, <3>3
  <2>3. PerFlusher'
    <3>1. PerFlusher
      BY TypeParts DEF FlushType
    <3>2. UNCHANGED <<pc, snap, at, read, tx>>
      BY RecordEffect
    <3> QED BY <3>1, <3>2 DEF PerFlusher
  <2> QED BY <2>2, <2>3 DEF FlushType
<1>3. Exclusive'
  <2>1. Exclusive
    BY TypeParts
  <2> QED BY <2>1, RecordEffect DEF Exclusive
<1>4. RestType'
  <2>1. RestType
    BY TypeParts
  <2>2. /\ used' = [used EXCEPT ![today] = used[today] + 1] /\ today \in Day
        /\ late' = late \/ late' = [late EXCEPT ![today] = late[today] + 1]
        /\ table' = table /\ twice' = twice
    BY RecordEffect
  <2>3. used' \in [Day -> Nat] /\ late' \in [Day -> Nat]
    BY <2>1, <2>2 DEF RestType
  <2> QED BY <2>1, <2>2, <2>3 DEF RestType
<1> QED BY <1>1, <1>2, <1>3, <1>4, TypePartsNext

\* flush
LEMMA FlushBeginType ==
  ASSUME TypeOK, NEW f \in Flusher, flush(f), today' \in Day,
         stopped' \in {"no", "cancelled", "done", "failed"}, errors' \in 0..MaxErrors
  PROVE  TypeOK'
<1>0. /\ heap \in Seq(Nat \ {0}) /\ days \in [Day -> 0..Len(heap)] /\ Len(heap) \in Nat
      /\ tx \in [Flusher -> [Day -> Nat]]
  BY DEF TypeOK
<1>1. MemoryType'
  <2>1. MemoryType
    BY TypeParts
  <2>2. heap' = heap /\ days' = days
    BY FlushEffect
  <2> QED BY <2>1, <2>2 DEF MemoryType
<1>2. OneFlush(f, Len(heap))'
  <2>1. /\ pc'[f] = "execute" /\ snap'[f] = days /\ at'[f] \in Day /\ days[at'[f]] # 0
        /\ read'[f] = heap[days[at'[f]]] /\ tx'[f] = tx[f] /\ heap' = heap
    BY FlushEffect
  <2>2. days[at'[f]] \in 1..Len(heap)
    BY <1>0, <2>1
  <2>3. read'[f] \in Nat
    BY <1>0, <2>1, <2>2
  <2>4. at'[f] \in Days(f)'
    BY <2>1 DEF Days
  <2>5. at'[f] \in 0..LastDay
    BY <2>1 DEF Day
  <2> QED BY <1>0, <2>1, <2>3, <2>4, <2>5 DEF OneFlush, Busy
<1>3. FlushType'
  BY <1>2, FlushEffect, OneMoved
<1>4. Exclusive'
  <2>1. Exclusive
    BY TypeParts
  <2>2. \A g \in Flusher : tx'[g] = tx[g]
    BY FlushEffect DEF Others
  <2> QED BY <2>1, <2>2 DEF Exclusive
<1>5. RestType'
  <2>1. RestType
    BY TypeParts
  <2> QED BY <2>1, FlushEffect DEF RestType
<1> QED BY <1>1, <1>3, <1>4, <1>5, TypePartsNext

\* Execute: a row is written by one open transaction at a time.
LEMMA ExecuteType ==
  ASSUME TypeOK, NEW f \in Flusher, Execute(f)
  PROVE  TypeOK'
<1>e. /\ pc[f] = "execute" /\ snap'[f] = snap[f]
      /\ tx'[f] = [tx[f] EXCEPT ![at[f]] = read[f]]
  BY ExecuteEffect
<1>0. /\ heap \in Seq(Nat \ {0}) /\ Len(heap) \in Nat /\ snap[f] \in [Day -> 0..Len(heap)]
      /\ tx[f] \in [Day -> Nat] /\ at[f] \in 0..LastDay /\ read[f] \in Nat
      /\ pc[f] = "execute" /\ at[f] \in Days(f)
  BY <1>e DEF TypeOK
<1>1. Days(f)' = Days(f)
  BY <1>e DEF Days
<1>2. at[f] \in Day /\ tx'[f] \in [Day -> Nat] /\ tx'[f][at[f]] = read[f]
      /\ \A d \in Day \ {at[f]} : tx'[f][d] = tx[f][d]
  <2>1. at[f] \in Day
    BY <1>0 DEF Days
  <2> QED BY <1>e, <1>0, <2>1
<1>3. at'[f] \in Days(f) /\ at'[f] \in 0..LastDay /\ read'[f] \in Nat /\ pc'[f] \in {"execute", "commit"}
  <2>1. \/ pc'[f] = "commit" /\ at'[f] = at[f] /\ read'[f] = read[f]
        \/ pc'[f] = "execute" /\ at'[f] \in Days(f) /\ read'[f] = heap[snap[f][at'[f]]]
    BY ExecuteEffect
  <2>2. ASSUME NEW d \in Days(f) PROVE heap[snap[f][d]] \in Nat /\ d \in 0..LastDay
    <3>1. snap[f][d] \in 1..Len(heap) /\ d \in Day
      BY <1>0 DEF Days
    <3>2. d \in 0..LastDay
      BY <3>1 DEF Day
    <3> QED BY <1>0, <3>1, <3>2
  <2>3. CASE pc'[f] = "commit" /\ at'[f] = at[f] /\ read'[f] = read[f]
    BY <1>0, <2>3
  <2>4. CASE pc'[f] = "execute" /\ at'[f] \in Days(f) /\ read'[f] = heap[snap[f][at'[f]]]
    BY <2>2, <2>4
  <2> QED BY <2>1, <2>3, <2>4
<1>4. OneFlush(f, Len(heap))'
  <2>1. snap'[f] = snap[f] /\ heap' = heap
    BY ExecuteEffect
  <2> QED BY <1>0, <1>1, <1>2, <1>3, <2>1 DEF OneFlush, Busy
<1>5. FlushType'
  BY <1>4, ExecuteEffect, OneMoved
<1>6. Exclusive'
  <2>1. Exclusive
    BY TypeParts
  <2>2. /\ \A g \in Flusher \ {f} : tx'[g] = tx[g] /\ tx[g][at[f]] = 0
    BY ExecuteEffect DEF Others
  <2> QED BY <1>2, <2>1, <2>2 DEF Exclusive
<1>7. MemoryType' /\ RestType'
  <2>1. MemoryType /\ RestType
    BY TypeParts
  <2>2. UNCHANGED <<today, heap, days, table, stopped, used, late, twice, errors>>
    BY ExecuteEffect
  <2> QED BY <2>1, <2>2 DEF MemoryType, RestType
<1> QED BY <1>5, <1>6, <1>7, TypePartsNext

\* Commit
LEMMA CommitType ==
  ASSUME TypeOK, NEW f \in Flusher, Commit(f), today' \in Day,
         stopped' \in {"no", "cancelled", "done", "failed"}, errors' \in 0..MaxErrors
  PROVE  TypeOK'
<1>1. /\ Others(f) /\ pc[f] = "commit" /\ pc'[f] = "pop" /\ snap'[f] = snap[f]
      /\ at'[f] = at[f] /\ read'[f] = read[f] /\ tx'[f] = None /\ PerFlusher'
      /\ UNCHANGED <<heap, days, used, late, twice>>
  BY CommitEffect
<1>2. OneFlush(f, Len(heap))'
  <2>1. OneFlush(f, Len(heap))
    BY TypeParts DEF FlushType
  <2>2. Days(f)' = Days(f)
    BY <1>1 DEF Days
  <2>3. None \in [Day -> Nat]
    BY DEF None
  <2> QED BY <1>1, <2>1, <2>2, <2>3 DEF OneFlush, Busy
<1>3. FlushType'
  BY <1>1, <1>2, OneMoved
<1>4. Exclusive'
  <2>1. Exclusive
    BY TypeParts
  <2>2. \A d \in Day : tx'[f][d] = 0
    BY <1>1 DEF None
  <2> QED BY <1>1, <2>1, <2>2 DEF Exclusive, Others
<1>5. MemoryType' /\ RestType'
  <2>1. MemoryType /\ RestType
    BY TypeParts
  <2>2. table' \in [Day -> Nat]
    BY StoreType DEF Commit
  <2> QED BY <1>1, <2>1, <2>2 DEF MemoryType, RestType
<1> QED BY <1>3, <1>4, <1>5, TypePartsNext

\* Pop
LEMMA PopType ==
  ASSUME TypeOK, NEW f \in Flusher, Pop(f), today' \in Day,
         stopped' \in {"no", "cancelled", "done", "failed"}, errors' \in 0..MaxErrors
  PROVE  TypeOK'
<1>1. /\ End(f) /\ days' = [d \in Day |-> IF d \in Days(f) THEN 0 ELSE days[d]]
      /\ UNCHANGED <<heap, table, used, late, twice>>
  BY PopEffect
<1>2. FlushType' /\ Exclusive'
  BY <1>1, EndType
<1>3. MemoryType'
  <2>1. MemoryType
    BY TypeParts
  <2>2. \A d \in Day : days'[d] = 0 \/ days'[d] = days[d]
    BY <1>1
  <2>3. days' \in [Day -> 0..Len(heap)]
    <3>1. Len(heap) \in Nat /\ days \in [Day -> 0..Len(heap)]
      BY <2>1 DEF MemoryType
    <3> QED BY <1>1, <3>1
  <2> QED BY <1>1, <2>1, <2>2, <2>3 DEF MemoryType
<1>4. RestType'
  <2>1. RestType
    BY TypeParts
  <2> QED BY <1>1, <2>1 DEF RestType
<1> QED BY <1>2, <1>3, <1>4, TypePartsNext

\* the flushes that fail or are cancelled
LEMMA AbortType ==
  ASSUME TypeOK, NEW f \in Flusher, Abort(f), today' \in Day,
         stopped' \in {"no", "cancelled", "done", "failed"}, errors' \in 0..MaxErrors
  PROVE  TypeOK'
<1>1. /\ End(f) /\ UNCHANGED <<heap, days, used, late>>
      /\ table' = table \/ Store(f)
      /\ twice' = twice \/ twice' = twice \cup Days(f)
  BY DEF Abort
<1>2. FlushType' /\ Exclusive'
  BY <1>1, EndType
<1>3. MemoryType'
  <2>1. MemoryType
    BY TypeParts
  <2> QED BY <1>1, <2>1 DEF MemoryType
<1>4. RestType'
  <2>1. RestType
    BY TypeParts
  <2>2. table' \in [Day -> Nat]
    <3>1. CASE table' = table
      BY <2>1, <3>1 DEF RestType
    <3>2. CASE Store(f)
      BY <3>2, StoreType
    <3> QED BY <1>1, <3>1, <3>2
  <2>3. Days(f) \subseteq Day
    BY DEF Days
  <2>4. twice' \subseteq Day
    BY <1>1, <2>1, <2>3 DEF RestType
  <2> QED BY <1>1, <2>1, <2>2, <2>4 DEF RestType
<1> QED BY <1>2, <1>3, <1>4, TypePartsNext

\* steps beside the recorder
LEMMA AsideType ==
  ASSUME TypeOK, Aside, today' \in Day, stopped' \in {"no", "cancelled", "done", "failed"},
         errors' \in 0..MaxErrors
  PROVE  TypeOK'
<1>1. MemoryType /\ FlushType /\ Exclusive /\ RestType
  BY TypeParts
<1>2. UNCHANGED <<heap, days, table, pc, snap, at, read, tx, used, late, twice>>
  BY DEF Aside, flushVars
<1>3. MemoryType' /\ RestType'
  BY <1>1, <1>2 DEF MemoryType, RestType
<1>4. FlushType'
  BY <1>1, <1>2 DEF FlushType, PerFlusher, OneFlush, Days
<1>5. Exclusive'
  BY <1>1, <1>2 DEF Exclusive
<1> QED BY <1>3, <1>4, <1>5, TypePartsNext

LEMMA TypeInit == Init => TypeOK
<1> SUFFICES ASSUME Init PROVE TypeOK
  OBVIOUS
<1>1. LastDay \in Nat \ {0} /\ MaxErrors \in Nat
  BY BoundAssumption
<1>2. None \in [Day -> Nat] /\ None \in [Day -> 0..0] /\ \A d \in Day : None[d] = 0
  BY DEF None
<1>3. heap = <<>> /\ Len(heap) = 0 /\ heap \in Seq(Nat \ {0}) /\ 1 \in Day /\ 0 \in 0..LastDay
  BY <1>1 DEF Init, Day
<1>4. /\ pc = [f \in Flusher |-> "idle"] /\ snap = [f \in Flusher |-> None]
      /\ at = [f \in Flusher |-> 0] /\ read = [f \in Flusher |-> 0]
      /\ tx = [f \in Flusher |-> None] /\ days = None /\ today = 1
      /\ table = None /\ used = None /\ late = None /\ twice = {} /\ errors = 0 /\ stopped = "no"
  BY DEF Init
<1>5. \A f \in Flusher : Days(f) = {}
  BY <1>2, <1>4 DEF Days
<1>6. MemoryType
  BY <1>2, <1>3, <1>4 DEF MemoryType
<1>7. ASSUME NEW f \in Flusher PROVE OneFlush(f, Len(heap))
  BY <1>2, <1>3, <1>4, <1>5 DEF OneFlush
<1>8. FlushType
  BY <1>4, <1>7 DEF FlushType, PerFlusher
<1>9. Exclusive
  BY <1>2, <1>4 DEF Exclusive
<1>10. RestType
  BY <1>1, <1>2, <1>4 DEF RestType
<1> QED BY <1>6, <1>8, <1>9, <1>10, TypeParts

LEMMA TypeNext == TypeOK /\ [Next]_vars => TypeOK'
<1> SUFFICES ASSUME TypeOK, [Next]_vars PROVE TypeOK'
  OBVIOUS
<1>1. /\ Aside \/ record_used \/ \E f \in Flusher : Moves(f)
      /\ today' \in Day /\ stopped' \in {"no", "cancelled", "done", "failed"}
      /\ errors' \in 0..MaxErrors
  BY StepKinds
<1>2. CASE Aside
  BY <1>1, <1>2, AsideType
<1>3. CASE record_used
  BY <1>1, <1>3, RecordType
<1>4. ASSUME NEW f \in Flusher, Moves(f) PROVE TypeOK'
  BY <1>1, <1>4, FlushBeginType, ExecuteType, CommitType, PopType, AbortType DEF Moves
<1> QED BY <1>1, <1>2, <1>3, <1>4

\* TypeOK holds in every state: a flush under way holds an object of the day it
\* is at, two transactions never hold the same row, and every day in memory has
\* an object of its own.
THEOREM TypeCorrect == Spec => []TypeOK
<1>1. Init => TypeOK
  BY TypeInit
<1>2. TypeOK /\ [Next]_vars => TypeOK'
  BY TypeNext
<1> QED BY <1>1, <1>2, PTL DEF Spec

-----------------------------------------------------------------------------
(* Nothing recorded outside a flush is lost. *)

Kept == QuietCounted /\ Covers

\* What a flush carries is a count.
LEMMA CarriedNat ==
  ASSUME TypeOK, NEW f \in Flusher, NEW d \in Days(f)
  PROVE  /\ Carried(f, d) \in Nat /\ d \in Day /\ snap[f][d] \in 1..Len(heap)
         /\ heap[snap[f][d]] \in Nat \ {0}
<1>1. /\ snap[f] \in [Day -> 0..Len(heap)] /\ read[f] \in Nat /\ tx[f] \in [Day -> Nat]
      /\ heap \in Seq(Nat \ {0}) /\ Len(heap) \in Nat
  BY DEF TypeOK
<1>2. d \in Day /\ snap[f][d] \in 1..Len(heap)
  BY <1>1 DEF Days
<1>3. heap[snap[f][d]] \in Nat \ {0} /\ tx[f][d] \in Nat
  BY <1>1, <1>2
<1> QED BY <1>1, <1>2, <1>3 DEF Carried

\* The counts in memory and of the history are numbers.
LEMMA CountsNat ==
  ASSUME TypeOK, NEW d \in Day
  PROVE  /\ Mem(d) \in Nat /\ used[d] \in Nat /\ late[d] \in Nat /\ table[d] \in Nat
         /\ Quiet(d) \in Int
         /\ days[d] # 0 => days[d] \in 1..Len(heap) /\ Mem(d) = heap[days[d]]
<1>1. /\ days \in [Day -> 0..Len(heap)] /\ used \in [Day -> Nat] /\ late \in [Day -> Nat]
      /\ table \in [Day -> Nat] /\ heap \in Seq(Nat \ {0}) /\ Len(heap) \in Nat
  BY DEF TypeOK
<1>2. days[d] # 0 => days[d] \in 1..Len(heap) /\ heap[days[d]] \in Nat
  BY <1>1
<1> QED BY <1>1, <1>2 DEF Mem, Quiet

\* A flush that stands still, while counts and rows only grow and nothing is
\* recorded outside a flush of the day, still covers its days.
LEMMA StillCovers ==
  ASSUME TypeOK, TypeOK', NEW g \in Flusher, NEW d \in Days(g),
         pc'[g] = pc[g], snap'[g] = snap[g], at'[g] = at[g], read'[g] = read[g], tx'[g] = tx[g],
         \A i \in 1..Len(heap) : heap[i] <= heap'[i],
         table[d] <= table'[d], Quiet(d)' = Quiet(d),
         Quiet(d) <= table[d] + Carried(g, d)
  PROVE  Quiet(d)' <= table'[d] + Carried(g, d)'
<1>1. /\ Carried(g, d) \in Nat /\ d \in Day /\ snap[g][d] \in 1..Len(heap)
      /\ heap[snap[g][d]] \in Nat
  BY CarriedNat
<1>2. Quiet(d) \in Int /\ table[d] \in Nat
  BY <1>1, CountsNat
<1>3. table'[d] \in Nat
  BY <1>1 DEF TypeOK
<1>4. heap[snap[g][d]] <= heap'[snap'[g][d]]
  BY <1>1
<1>5. heap'[snap'[g][d]] \in Nat
  <2>1. heap' \in Seq(Nat \ {0}) /\ snap'[g] \in [Day -> 0..Len(heap')] /\ Len(heap') \in Nat
    <3>1. heap' \in Seq(Nat \ {0}) /\ snap' \in [Flusher -> [Day -> 0..Len(heap')]]
      BY DEF TypeOK
    <3> QED BY <3>1
  <2>2. snap'[g][d] \in 1..Len(heap')
    BY <1>1, <2>1
  <2> QED BY <2>1, <2>2
<1>6. Carried(g, d) <= Carried(g, d)' /\ Carried(g, d)' \in Nat
  <2>1. tx[g][d] \in Nat /\ read[g] \in Nat /\ at[g] \in Nat
    BY <1>1, BoundAssumption DEF TypeOK
  <2> QED BY <1>1, <1>4, <1>5, <2>1 DEF Carried
<1> QED BY <1>1, <1>2, <1>3, <1>6

\* The other flushes, in a step that records nothing.
LEMMA OthersCover ==
  ASSUME TypeOK, TypeOK', Covers, NEW f \in Flusher, Others(f), heap' = heap,
         UNCHANGED <<used, late>>, \A d \in Day : table[d] <= table'[d]
  PROVE  \A g \in Flusher \ {f} : \A d \in Days(g)' : Quiet(d)' <= table'[d] + Carried(g, d)'
<1> SUFFICES ASSUME NEW g \in Flusher \ {f}, NEW d \in Days(g)'
             PROVE  Quiet(d)' <= table'[d] + Carried(g, d)'
  OBVIOUS
<1>1. /\ pc'[g] = pc[g] /\ snap'[g] = snap[g] /\ at'[g] = at[g] /\ read'[g] = read[g]
      /\ tx'[g] = tx[g]
  BY DEF Others
<1>2. d \in Days(g) /\ d \in Day
  BY <1>1 DEF Days
<1>3. Quiet(d)' = Quiet(d)
  BY DEF Quiet
<1>4. \A i \in 1..Len(heap) : heap[i] <= heap'[i]
  <2>1. heap \in Seq(Nat \ {0})
    BY DEF TypeOK
  <2>2. \A i \in 1..Len(heap) : heap[i] \in Nat
    BY <2>1
  <2> QED BY <2>2
<1>5. Quiet(d) <= table[d] + Carried(g, d)
  BY <1>2 DEF Covers
<1> QED BY <1>1, <1>2, <1>3, <1>4, <1>5, StillCovers

\* A step that keeps the memory and lowers no row keeps every quiet count.
LEMMA QuietStays ==
  ASSUME TypeOK, QuietCounted, UNCHANGED <<heap, days, used, late>>,
         table' \in [Day -> Nat], \A d \in Day : table[d] <= table'[d]
  PROVE  QuietCounted'
<1> SUFFICES ASSUME NEW d \in Day PROVE used'[d] - late'[d] <= table'[d] + Mem(d)'
  BY DEF QuietCounted
<1>1. Mem(d)' = Mem(d)
  BY DEF Mem
<1>2. used[d] - late[d] <= table[d] + Mem(d)
  BY DEF QuietCounted
<1>3. Mem(d) \in Nat /\ used[d] \in Nat /\ late[d] \in Nat /\ table[d] \in Nat
  BY CountsNat
<1>4. table[d] <= table'[d] /\ table'[d] \in Nat
  OBVIOUS
<1> QED BY <1>1, <1>2, <1>3, <1>4

\* recording: a request of a day that a flush has found is late
LEMMA KeptRecord ==
  ASSUME TypeOK, TypeOK', Kept, record_used
  PROVE  Kept'
<1>1. /\ Grows /\ days'[today] # 0 /\ today \in Day
      /\ \A d \in Day \ {today} : days'[d] = days[d]
      /\ \A d \in Day : days'[d] # 0 => heap'[days'[d]] = IF d = today THEN Mem(d) + 1 ELSE Mem(d)
      /\ used' = [used EXCEPT ![today] = used[today] + 1]
      /\ late' = IF \E f \in Flusher : today \in Days(f)
                   THEN [late EXCEPT ![today] = late[today] + 1] ELSE late
      /\ UNCHANGED <<table, pc, snap, at, read, tx, twice>>
  BY RecordEffect
<1>2. used \in [Day -> Nat] /\ late \in [Day -> Nat] /\ table \in [Day -> Nat]
  BY DEF TypeOK
<1>3. /\ \A d \in Day \ {today} : used'[d] = used[d] /\ late'[d] = late[d]
      /\ used'[today] = used[today] + 1
      /\ late'[today] = late[today] \/ late'[today] = late[today] + 1
      /\ (\E f \in Flusher : today \in Days(f)) => late'[today] = late[today] + 1
  BY <1>1, <1>2
<1>4. QuietCounted'
  <2> SUFFICES ASSUME NEW d \in Day PROVE used'[d] - late'[d] <= table'[d] + Mem(d)'
    BY DEF QuietCounted
  <2>1. used[d] - late[d] <= table[d] + Mem(d)
    BY DEF Kept, QuietCounted
  <2>2. Mem(d) \in Nat /\ used[d] \in Nat /\ late[d] \in Nat /\ table[d] \in Nat
    BY CountsNat
  <2>3. Mem(d)' = IF d = today THEN Mem(d) + 1 ELSE Mem(d)
    <3>1. CASE days'[d] # 0
      BY <1>1, <3>1 DEF Mem
    <3>2. CASE days'[d] = 0
      BY <1>1, <3>2 DEF Mem
    <3> QED BY <3>1, <3>2
  <2>4. CASE d = today
    BY <1>1, <1>3, <2>1, <2>2, <2>3, <2>4
  <2>5. CASE d # today
    BY <1>1, <1>3, <2>1, <2>2, <2>3, <2>5
  <2> QED BY <2>4, <2>5
<1>5. Covers'
  <2> SUFFICES ASSUME NEW f \in Flusher, NEW d \in Days(f)'
               PROVE  Quiet(d)' <= table'[d] + Carried(f, d)'
    BY DEF Covers
  <2>1. d \in Days(f) /\ d \in Day
    BY <1>1 DEF Days
  <2>2. Quiet(d)' = Quiet(d)
    <3>1. used[d] \in Nat /\ late[d] \in Nat
      BY <1>2, <2>1
    <3>2. CASE d = today
      <4>1. late'[today] = late[today] + 1
        BY <1>3, <2>1, <3>2
      <4> QED BY <1>3, <3>1, <3>2, <4>1 DEF Quiet
    <3>3. CASE d # today
      BY <1>3, <2>1, <3>3 DEF Quiet
    <3> QED BY <3>2, <3>3
  <2>3. Quiet(d) <= table[d] + Carried(f, d)
    BY <2>1 DEF Kept, Covers
  <2>4. /\ pc'[f] = pc[f] /\ snap'[f] = snap[f] /\ at'[f] = at[f] /\ read'[f] = read[f]
        /\ tx'[f] = tx[f]
    BY <1>1
  <2>5. table[d] <= table'[d]
    BY <1>1, <1>2, <2>1
  <2>6. \A i \in 1..Len(heap) : heap[i] <= heap'[i]
    BY <1>1 DEF Grows
  <2> QED BY <2>1, <2>2, <2>3, <2>4, <2>5, <2>6, StillCovers
<1> QED BY <1>4, <1>5 DEF Kept

\* flush: what it finds in memory covers the day
LEMMA KeptFlush ==
  ASSUME TypeOK, TypeOK', Kept, NEW f \in Flusher, flush(f)
  PROVE  Kept'
<1>1. /\ Others(f) /\ pc'[f] = "execute" /\ snap'[f] = days
      /\ at'[f] \in Day /\ days[at'[f]] # 0
      /\ \A d \in Day : days[d] # 0 => at'[f] <= d
      /\ read'[f] = heap[days[at'[f]]]
      /\ UNCHANGED <<heap, days, table, used, late>>
  BY FlushEffect
<1>2. table \in [Day -> Nat] /\ table' \in [Day -> Nat] /\ \A d \in Day : table[d] <= table'[d]
  <2>1. table \in [Day -> Nat]
    BY DEF TypeOK
  <2> QED BY <1>1, <2>1
<1>3. QuietCounted'
  BY <1>1, <1>2, QuietStays DEF Kept
<1>4. \A g \in Flusher \ {f} : \A d \in Days(g)' : Quiet(d)' <= table'[d] + Carried(g, d)'
  BY <1>1, <1>2, OthersCover DEF Kept
<1>5. ASSUME NEW d \in Days(f)' PROVE Quiet(d)' <= table'[d] + Carried(f, d)'
  <2>1. d \in Day /\ days[d] # 0
    BY <1>1 DEF Days
  <2>2. at'[f] <= d /\ d \in Nat /\ at'[f] \in Nat
    BY <1>1, <2>1, BoundAssumption DEF Day
  <2>3. Mem(d) = heap[days[d]]
    BY <2>1 DEF Mem
  <2>4. Carried(f, d)' = Mem(d)
    BY <1>1, <2>2, <2>3 DEF Carried
  <2>5. Quiet(d) <= table[d] + Mem(d)
    BY <2>1 DEF Kept, QuietCounted, Quiet
  <2> QED BY <1>1, <2>4, <2>5 DEF Quiet
<1> QED BY <1>3, <1>4, <1>5 DEF Kept, Covers

\* Execute: the count moves from the statement into the transaction
LEMMA KeptExecute ==
  ASSUME TypeOK, TypeOK', Kept, NEW f \in Flusher, Execute(f)
  PROVE  Kept'
<1>1. /\ Others(f) /\ pc[f] = "execute" /\ snap'[f] = snap[f]
      /\ tx'[f] = [tx[f] EXCEPT ![at[f]] = read[f]]
      /\ \/ /\ pc'[f] = "commit" /\ at'[f] = at[f] /\ read'[f] = read[f]
            /\ \A d \in Days(f) : d <= at[f]
         \/ /\ pc'[f] = "execute" /\ at'[f] \in Days(f) /\ at'[f] > at[f]
            /\ read'[f] = heap[snap[f][at'[f]]]
            /\ \A d \in Days(f) : d > at[f] => at'[f] <= d
      /\ UNCHANGED <<heap, days, table, used, late>>
  BY ExecuteEffect
<1>2. table \in [Day -> Nat] /\ table' \in [Day -> Nat] /\ \A d \in Day : table[d] <= table'[d]
  <2>1. table \in [Day -> Nat]
    BY DEF TypeOK
  <2> QED BY <1>1, <2>1
<1>3. QuietCounted'
  BY <1>1, <1>2, QuietStays DEF Kept
<1>4. \A g \in Flusher \ {f} : \A d \in Days(g)' : Quiet(d)' <= table'[d] + Carried(g, d)'
  BY <1>1, <1>2, OthersCover DEF Kept
<1>5. ASSUME NEW d \in Days(f)' PROVE Quiet(d)' <= table'[d] + Carried(f, d)'
  <2>1. d \in Days(f) /\ d \in Day /\ d \in Nat
    BY <1>1, BoundAssumption DEF Days, Day
  <2>2. at[f] \in Nat /\ at'[f] \in Nat /\ tx[f] \in [Day -> Nat] /\ at[f] \in Day
    <3>1. at[f] \in Days(f)
      BY <1>1 DEF TypeOK
    <3>2. at \in [Flusher -> 0..LastDay] /\ at' \in [Flusher -> 0..LastDay] /\ tx[f] \in [Day -> Nat]
      BY DEF TypeOK
    <3>3. at[f] \in Nat /\ at'[f] \in Nat
      BY <3>2, BoundAssumption
    <3> QED BY <3>1, <3>2, <3>3 DEF Days
  <2>3. tx'[f][at[f]] = read[f] /\ (d # at[f] => tx'[f][d] = tx[f][d])
    BY <1>1, <2>1, <2>2
  <2>4. Carried(f, d)' = Carried(f, d)
    <3>1. CASE pc'[f] = "commit" /\ d <= at[f]
      BY <1>1, <2>1, <2>2, <2>3, <3>1 DEF Carried
    <3>2. CASE /\ pc'[f] = "execute" /\ at'[f] > at[f] /\ read'[f] = heap[snap[f][at'[f]]]
               /\ d > at[f] => at'[f] <= d
      BY <1>1, <2>1, <2>2, <2>3, <3>2 DEF Carried
    <3> QED BY <1>1, <2>1, <3>1, <3>2
  <2>5. Quiet(d) <= table[d] + Carried(f, d)
    BY <2>1 DEF Kept, Covers
  <2> QED BY <1>1, <2>4, <2>5 DEF Quiet
<1> QED BY <1>3, <1>4, <1>5 DEF Kept, Covers

\* Commit: from the transaction into the table
LEMMA KeptCommit ==
  ASSUME TypeOK, TypeOK', Kept, NEW f \in Flusher, Commit(f)
  PROVE  Kept'
<1>1. /\ Others(f) /\ pc[f] = "commit" /\ pc'[f] = "pop" /\ snap'[f] = snap[f]
      /\ UNCHANGED <<heap, days, used, late>>
  BY CommitEffect
<1>2. /\ table' \in [Day -> Nat]
      /\ \A d \in Day : table'[d] = table[d] + tx[f][d] /\ table[d] <= table'[d]
  BY StoreType DEF Commit
<1>3. QuietCounted'
  BY <1>1, <1>2, QuietStays DEF Kept
<1>4. \A g \in Flusher \ {f} : \A d \in Days(g)' : Quiet(d)' <= table'[d] + Carried(g, d)'
  BY <1>1, <1>2, OthersCover DEF Kept
<1>5. ASSUME NEW d \in Days(f)' PROVE Quiet(d)' <= table'[d] + Carried(f, d)'
  <2>1. d \in Days(f) /\ d \in Day
    BY <1>1 DEF Days
  <2>2. Quiet(d) <= table[d] + Carried(f, d)
    BY <2>1 DEF Kept, Covers
  <2>3. Carried(f, d) = tx[f][d] /\ Carried(f, d)' = 0
    BY <1>1 DEF Carried
  <2>4. table'[d] \in Nat
    BY <1>2, <2>1
  <2> QED BY <1>1, <1>2, <2>1, <2>2, <2>3, <2>4 DEF Quiet
<1> QED BY <1>3, <1>4, <1>5 DEF Kept, Covers

\* Pop: a committed flush forgets what the table has
LEMMA KeptPop ==
  ASSUME TypeOK, TypeOK', Kept, NEW f \in Flusher, Pop(f)
  PROVE  Kept'
<1>1. /\ End(f) /\ pc[f] = "pop"
      /\ days' = [d \in Day |-> IF d \in Days(f) THEN 0 ELSE days[d]]
      /\ UNCHANGED <<heap, table, used, late>>
  BY PopEffect
<1>2. Others(f) /\ snap'[f] = None
  BY <1>1, EndEffect
<1>3. table \in [Day -> Nat] /\ \A d \in Day : table[d] <= table'[d]
  <2>1. table \in [Day -> Nat]
    BY DEF TypeOK
  <2> QED BY <1>1, <2>1
<1>4. QuietCounted'
  <2> SUFFICES ASSUME NEW d \in Day PROVE used'[d] - late'[d] <= table'[d] + Mem(d)'
    BY DEF QuietCounted
  <2>1. table[d] \in Nat
    BY <1>3
  <2>2. CASE d \in Days(f)
    <3>1. Carried(f, d) = 0 /\ Mem(d)' = 0
      BY <1>1, <2>2 DEF Carried, Mem
    <3>2. Quiet(d) <= table[d] + Carried(f, d)
      BY <2>2 DEF Kept, Covers
    <3> QED BY <1>1, <3>1, <3>2 DEF Quiet
  <2>3. CASE d \notin Days(f)
    <3>1. Mem(d)' = Mem(d)
      BY <1>1, <2>3 DEF Mem
    <3> QED BY <1>1, <3>1 DEF Kept, QuietCounted
  <2> QED BY <2>2, <2>3
<1>5. \A g \in Flusher \ {f} : \A d \in Days(g)' : Quiet(d)' <= table'[d] + Carried(g, d)'
  BY <1>1, <1>2, <1>3, OthersCover DEF Kept
<1>6. Days(f)' = {}
  BY <1>2 DEF Days, None
<1> QED BY <1>4, <1>5, <1>6 DEF Kept, Covers

\* a flush that fails or is cancelled leaves the memory as it is
LEMMA KeptAbort ==
  ASSUME TypeOK, TypeOK', Kept, NEW f \in Flusher, Abort(f)
  PROVE  Kept'
<1>1. End(f) /\ UNCHANGED <<heap, days, used, late>> /\ (table' = table \/ Store(f))
  BY DEF Abort
<1>2. Others(f) /\ snap'[f] = None
  BY <1>1, EndEffect
<1>3. table' \in [Day -> Nat] /\ \A d \in Day : table[d] <= table'[d]
  <2>1. CASE table' = table
    <3>1. table \in [Day -> Nat]
      BY DEF TypeOK
    <3> QED BY <2>1, <3>1
  <2>2. CASE Store(f)
    BY <2>2, StoreType
  <2> QED BY <1>1, <2>1, <2>2
<1>4. QuietCounted'
  BY <1>1, <1>3, QuietStays DEF Kept
<1>5. \A g \in Flusher \ {f} : \A d \in Days(g)' : Quiet(d)' <= table'[d] + Carried(g, d)'
  BY <1>1, <1>2, <1>3, OthersCover DEF Kept
<1>6. Days(f)' = {}
  BY <1>2 DEF Days, None
<1> QED BY <1>4, <1>5, <1>6 DEF Kept, Covers

LEMMA KeptAside == ASSUME Kept, Aside PROVE Kept'
<1>1. UNCHANGED <<heap, days, table, pc, snap, at, read, tx, used, late, twice>>
  BY DEF Aside, flushVars
<1>2. QuietCounted'
  BY <1>1 DEF Kept, QuietCounted, Mem
<1>3. Covers'
  BY <1>1 DEF Kept, Covers, Days, Quiet, Carried
<1> QED BY <1>2, <1>3 DEF Kept

LEMMA KeptInit == Init => Kept
<1> SUFFICES ASSUME Init PROVE Kept
  OBVIOUS
<1>1. None \in [Day -> Nat] /\ \A d \in Day : None[d] = 0
  BY DEF None
<1>2. QuietCounted
  BY <1>1 DEF Init, QuietCounted, Mem
<1>3. \A f \in Flusher : Days(f) = {}
  BY <1>1 DEF Init, Days
<1> QED BY <1>2, <1>3 DEF Kept, Covers

LEMMA KeptNext == TypeOK /\ TypeOK' /\ Kept /\ [Next]_vars => Kept'
<1> SUFFICES ASSUME TypeOK, TypeOK', Kept, [Next]_vars PROVE Kept'
  OBVIOUS
<1>1. Aside \/ record_used \/ \E f \in Flusher : Moves(f)
  BY StepKinds
<1>2. CASE Aside
  BY <1>2, KeptAside
<1>3. CASE record_used
  BY <1>3, KeptRecord
<1>4. ASSUME NEW f \in Flusher, Moves(f) PROVE Kept'
  BY <1>4, KeptFlush, KeptExecute, KeptCommit, KeptPop, KeptAbort DEF Moves
<1> QED BY <1>1, <1>2, <1>3, <1>4

\* Whatever flushes overlap, fail or are cancelled: what was recorded of a day
\* while no flush of it was under way is in memory or in the table.
THEOREM QuietRequestsSurvive == Spec => []QuietCounted
<1>1. Init => Kept
  BY KeptInit
<1>2. TypeOK /\ TypeOK' /\ Kept /\ [Next]_vars => Kept'
  BY KeptNext
<1>3. Kept => QuietCounted
  BY DEF Kept
<1> QED BY <1>1, <1>2, <1>3, TypeCorrect, PTL DEF Spec

-----------------------------------------------------------------------------
(* No request is counted twice. *)

Once == Open /\ OneHand /\ CountedOnce

\* Storing(d) and the memory of a day stay when flushes and days do.
LEMMA CountStays ==
  ASSUME TypeOK, CountedOnce, NEW d \in Day, d \notin twice,
         Storing(d)' <=> Storing(d), table'[d] = table[d], Mem(d)' = Mem(d), used'[d] = used[d]
  PROVE  table'[d] + (IF Storing(d)' THEN 0 ELSE Mem(d)') <= used'[d]
<1>1. table[d] + (IF Storing(d) THEN 0 ELSE Mem(d)) <= used[d]
  BY DEF CountedOnce
<1>2. CASE Storing(d)
  BY <1>1, <1>2
<1>3. CASE ~ Storing(d)
  BY <1>1, <1>3
<1> QED BY <1>2, <1>3

\* A flush that was not popping and is not, is no reason for Storing.
LEMMA StoringStays ==
  ASSUME NEW f \in Flusher, Others(f), NEW d \in Day,
         ~ (pc[f] = "pop" /\ d \in Days(f)), ~ (pc'[f] = "pop" /\ d \in Days(f)')
  PROVE  Storing(d)' <=> Storing(d)
<1>1. \A g \in Flusher \ {f} : pc'[g] = pc[g] /\ (d \in Days(g)' <=> d \in Days(g))
  BY DEF Others, Days
<1> QED BY <1>1 DEF Storing

LEMMA OnceRecord ==
  ASSUME TypeOK, Once, record_used
  PROVE  Once'
<1>1. /\ Grows /\ days'[today] # 0 /\ today \in Day
      /\ \A d \in Day \ {today} : days'[d] = days[d]
      /\ \A d \in Day : days[d] # 0 => days'[d] = days[d]
      /\ \A d \in Day : days'[d] # 0 => heap'[days'[d]] = IF d = today THEN Mem(d) + 1 ELSE Mem(d)
      /\ used' = [used EXCEPT ![today] = used[today] + 1]
      /\ UNCHANGED <<table, pc, snap, at, read, tx, twice>>
  BY RecordEffect
<1>2. Open'
  BY <1>1 DEF Once, Open, Days
<1>3. OneHand'
  <2> SUFFICES ASSUME NEW f \in Flusher, NEW d \in Days(f)', d \notin twice' PROVE Alone(f, d)'
    BY DEF OneHand
  <2>1. d \in Days(f) /\ d \in Day /\ d \notin twice
    BY <1>1 DEF Days
  <2>2. Alone(f, d)
    BY <2>1 DEF Once, OneHand
  <2>3. \A g \in Flusher : d \in Days(g)' => g = f
    BY <1>1, <2>2 DEF Alone, Days
  <2>4. days'[d] = snap'[f][d]
    BY <1>1, <2>1, <2>2 DEF Alone, Days
  <2>5. /\ snap[f][d] \in 1..Len(heap) /\ heap[snap[f][d]] \in Nat
        /\ tx[f][d] \in Nat /\ read[f] \in Nat
    <3>1. tx[f][d] \in Nat /\ read[f] \in Nat
      BY <2>1 DEF TypeOK
    <3> QED BY <2>1, <3>1, CarriedNat
  <2>6. heap[snap[f][d]] <= heap'[snap'[f][d]] /\ heap'[snap'[f][d]] \in Nat
    <3>1. snap[f][d] \in 1..Len(heap') /\ heap' \in Seq(Nat \ {0})
      BY <1>1, <2>5 DEF Grows
    <3>2. heap'[snap[f][d]] \in Nat
      BY <3>1
    <3> QED BY <1>1, <2>5, <3>2 DEF Grows
  <2>7. /\ tx'[f][d] <= heap'[snap'[f][d]]
        /\ at'[f] = d => read'[f] <= heap'[snap'[f][d]]
    BY <1>1, <2>2, <2>5, <2>6 DEF Alone
  <2> QED BY <2>3, <2>4, <2>7 DEF Alone
<1>4. CountedOnce'
  <2> SUFFICES ASSUME NEW d \in Day, d \notin twice'
               PROVE  table'[d] + (IF Storing(d)' THEN 0 ELSE Mem(d)') <= used'[d]
    BY DEF CountedOnce
  <2>1. Storing(d)' <=> Storing(d)
    BY <1>1 DEF Storing, Days
  <2>2. table[d] + (IF Storing(d) THEN 0 ELSE Mem(d)) <= used[d]
    BY <1>1 DEF Once, CountedOnce
  <2>3. Mem(d) \in Nat /\ used[d] \in Nat /\ table[d] \in Nat
    BY CountsNat
  <2>4. Mem(d)' = IF d = today THEN Mem(d) + 1 ELSE Mem(d)
    <3>1. CASE days'[d] # 0
      BY <1>1, <3>1 DEF Mem
    <3>2. CASE days'[d] = 0
      BY <1>1, <3>2 DEF Mem
    <3> QED BY <3>1, <3>2
  <2>5. used'[d] = IF d = today THEN used[d] + 1 ELSE used[d]
    <3>1. used \in [Day -> Nat]
      BY DEF TypeOK
    <3> QED BY <1>1, <3>1
  <2>6. CASE Storing(d)
    BY <1>1, <2>1, <2>2, <2>3, <2>5, <2>6
  <2>7. CASE ~ Storing(d)
    BY <1>1, <2>1, <2>2, <2>3, <2>4, <2>5, <2>7
  <2> QED BY <2>6, <2>7
<1> QED BY <1>2, <1>3, <1>4 DEF Once

\* flush: with another one under way, every day in memory may be counted twice
LEMMA OnceFlush ==
  ASSUME TypeOK, Once, NEW f \in Flusher, flush(f)
  PROVE  Once'
<1>1. /\ Others(f) /\ pc[f] = "idle" /\ pc'[f] = "execute" /\ snap'[f] = days
      /\ at'[f] \in Day /\ days[at'[f]] # 0
      /\ read'[f] = heap[days[at'[f]]] /\ tx'[f] = tx[f]
      /\ UNCHANGED <<heap, days, table, used, late>>
      /\ twice' = IF \E g \in Flusher : Days(g) # {}
                    THEN twice \cup {d \in Day : days[d] # 0} ELSE twice
  BY FlushEffect
<1>2. \A d \in Day : tx[f][d] = 0
  BY <1>1 DEF Once, Open
<1>3. \A g \in Flusher \ {f} : Days(g)' = Days(g) /\ pc'[g] = pc[g] /\ tx'[g] = tx[g]
  BY <1>1 DEF Others, Days
<1>4. Open'
  BY <1>1, <1>2, <1>3 DEF Once, Open
<1>5. OneHand'
  <2> SUFFICES ASSUME NEW g \in Flusher, NEW d \in Days(g)', d \notin twice' PROVE Alone(g, d)'
    BY DEF OneHand
  <2>1. d \in Day
    BY DEF Days
  <2>2. CASE \E h \in Flusher : Days(h) # {}
    <3>1. d \notin twice /\ days[d] = 0
      BY <1>1, <2>1, <2>2
    <3>2. CASE g = f
      BY <1>1, <3>1, <3>2 DEF Days
    <3>3. CASE g # f
      <4>1. d \in Days(g)
        BY <1>3, <3>3
      <4>2. Alone(g, d)
        BY <3>1, <4>1 DEF Once, OneHand
      <4> QED BY <3>1, <4>1, <4>2 DEF Alone, Days
    <3> QED BY <3>2, <3>3
  <2>3. CASE ~ \E h \in Flusher : Days(h) # {}
    <3>1. \A h \in Flusher \ {f} : d \notin Days(h)'
      BY <1>3, <2>3
    <3>2. g = f
      BY <3>1
    <3>3. days'[d] = snap'[f][d] /\ days[d] # 0
      BY <1>1, <3>2 DEF Days
    <3>4. heap[days[d]] \in Nat
      BY <2>1, <3>3, CountsNat
    <3>5. tx'[f][d] <= heap'[snap'[f][d]]
      BY <1>1, <1>2, <2>1, <3>4
    <3>6. at'[f] = d => read'[f] <= heap'[snap'[f][d]]
      BY <1>1, <3>4
    <3> QED BY <3>1, <3>2, <3>3, <3>5, <3>6 DEF Alone
  <2> QED BY <2>2, <2>3
<1>6. CountedOnce'
  <2> SUFFICES ASSUME NEW d \in Day, d \notin twice'
               PROVE  table'[d] + (IF Storing(d)' THEN 0 ELSE Mem(d)') <= used'[d]
    BY DEF CountedOnce
  <2>1. d \notin twice /\ table'[d] = table[d] /\ used'[d] = used[d]
    BY <1>1
  <2>2. Storing(d)' <=> Storing(d)
    BY <1>1, StoringStays
  <2>3. Mem(d)' = Mem(d)
    BY <1>1 DEF Mem
  <2> QED BY <2>1, <2>2, <2>3, CountStays DEF Once
<1> QED BY <1>4, <1>5, <1>6 DEF Once

\* A flush that stands still is still alone with its day.
LEMMA StillAlone ==
  ASSUME OneHand, NEW f \in Flusher, Others(f), heap' = heap, twice \subseteq twice',
         Days(f)' \subseteq Days(f),
         NEW g \in Flusher \ {f}, NEW d \in Days(g)', d \notin twice', days'[d] = days[d]
  PROVE  Alone(g, d)'
<1>1. \A h \in Flusher \ {f} : Days(h)' = Days(h)
  BY DEF Others, Days
<1>2. snap'[g] = snap[g] /\ at'[g] = at[g] /\ read'[g] = read[g] /\ tx'[g] = tx[g]
  BY DEF Others
<1>3. d \in Days(g) /\ d \notin twice
  BY <1>1
<1>4. Alone(g, d)
  BY <1>3 DEF OneHand
<1>5. \A h \in Flusher : d \in Days(h)' => h = g
  BY <1>1, <1>4 DEF Alone
<1> QED BY <1>2, <1>4, <1>5 DEF Alone

\* Execute: the transaction takes no more than the object counts
LEMMA OnceExecute ==
  ASSUME TypeOK, Once, NEW f \in Flusher, Execute(f)
  PROVE  Once'
<1>1. /\ Others(f) /\ pc[f] = "execute" /\ snap'[f] = snap[f]
      /\ tx'[f] = [tx[f] EXCEPT ![at[f]] = read[f]]
      /\ \/ pc'[f] = "commit" /\ at'[f] = at[f] /\ read'[f] = read[f]
         \/ pc'[f] = "execute" /\ read'[f] = heap[snap[f][at'[f]]]
      /\ UNCHANGED <<heap, days, table, used, late, twice>>
  BY ExecuteEffect
<1>2. at[f] \in Days(f) /\ at[f] \in Day /\ tx[f] \in [Day -> Nat]
  <2>1. at[f] \in Days(f) /\ tx[f] \in [Day -> Nat]
    BY <1>1 DEF TypeOK
  <2> QED BY <2>1 DEF Days
<1>3. tx'[f][at[f]] = read[f] /\ \A d \in Day \ {at[f]} : tx'[f][d] = tx[f][d]
  BY <1>1, <1>2
<1>4. \A g \in Flusher : Days(g)' = Days(g)
  BY <1>1 DEF Others, Days
<1>5. Open'
  <2> SUFFICES ASSUME NEW g \in Flusher, NEW d \in Day, tx'[g][d] # 0
               PROVE  pc'[g] \in {"execute", "commit"} /\ d \in Days(g)'
    BY DEF Open
  <2>1. CASE g = f
    <3>1. d \in Days(f)
      BY <1>2, <1>3, <2>1 DEF Once, Open
    <3> QED BY <1>1, <1>4, <2>1, <3>1
  <2>2. CASE g # f
    <3>1. tx[g][d] # 0 /\ pc'[g] = pc[g]
      BY <1>1, <2>2 DEF Others
    <3> QED BY <1>4, <3>1 DEF Once, Open
  <2> QED BY <2>1, <2>2
<1>6. OneHand'
  <2> SUFFICES ASSUME NEW g \in Flusher, NEW d \in Days(g)', d \notin twice' PROVE Alone(g, d)'
    BY DEF OneHand
  <2>1. CASE g = f
    <3>1. d \in Days(f) /\ d \in Day /\ d \notin twice
      BY <1>1, <1>4, <2>1 DEF Days
    <3>2. Alone(f, d)
      BY <3>1 DEF Once, OneHand
    <3>3. \A h \in Flusher : d \in Days(h)' => h = f
      BY <1>4, <3>2 DEF Alone
    <3>4. days'[d] = snap'[f][d]
      BY <1>1, <3>2 DEF Alone
    <3>5. tx'[f][d] <= heap'[snap'[f][d]]
      BY <1>1, <1>3, <3>1, <3>2 DEF Alone
    <3>6. heap[snap[f][d]] \in Nat
      BY <3>1, CarriedNat
    <3>7. at'[f] = d => read'[f] <= heap'[snap'[f][d]]
      BY <1>1, <3>2, <3>6 DEF Alone
    <3> QED BY <2>1, <3>3, <3>4, <3>5, <3>7 DEF Alone
  <2>2. CASE g # f
    BY <1>1, <1>4, <2>2, StillAlone DEF Once
  <2> QED BY <2>1, <2>2
<1>7. CountedOnce'
  <2> SUFFICES ASSUME NEW d \in Day, d \notin twice'
               PROVE  table'[d] + (IF Storing(d)' THEN 0 ELSE Mem(d)') <= used'[d]
    BY DEF CountedOnce
  <2>1. d \notin twice /\ table'[d] = table[d] /\ used'[d] = used[d]
    BY <1>1
  <2>2. Storing(d)' <=> Storing(d)
    BY <1>1, StoringStays
  <2>3. Mem(d)' = Mem(d)
    BY <1>1 DEF Mem
  <2> QED BY <2>1, <2>2, <2>3, CountStays DEF Once
<1> QED BY <1>5, <1>6, <1>7 DEF Once

\* Commit: the object in memory counted no less than the row got
LEMMA OnceCommit ==
  ASSUME TypeOK, Once, NEW f \in Flusher, Commit(f)
  PROVE  Once'
<1>1. /\ Others(f) /\ pc[f] = "commit" /\ pc'[f] = "pop" /\ snap'[f] = snap[f]
      /\ at'[f] = at[f] /\ read'[f] = read[f] /\ tx'[f] = None
      /\ UNCHANGED <<heap, days, used, late, twice>>
  BY CommitEffect
<1>2. \A d \in Day : table'[d] = table[d] + tx[f][d]
  BY StoreType DEF Commit
<1>3. \A d \in Day : tx'[f][d] = 0
  BY <1>1 DEF None
<1>4. \A g \in Flusher : Days(g)' = Days(g)
  BY <1>1 DEF Others, Days
<1>5. Open'
  BY <1>1, <1>3, <1>4 DEF Once, Open, Others
<1>6. OneHand'
  <2> SUFFICES ASSUME NEW g \in Flusher, NEW d \in Days(g)', d \notin twice' PROVE Alone(g, d)'
    BY DEF OneHand
  <2>1. CASE g = f
    <3>1. d \in Days(f) /\ d \in Day /\ d \notin twice
      BY <1>1, <1>4, <2>1 DEF Days
    <3>2. Alone(f, d)
      BY <3>1 DEF Once, OneHand
    <3>3. \A h \in Flusher : d \in Days(h)' => h = f
      BY <1>4, <3>2 DEF Alone
    <3>4. heap[snap[f][d]] \in Nat
      BY <3>1, CarriedNat
    <3>5. tx'[f][d] <= heap'[snap'[f][d]]
      BY <1>1, <1>3, <3>1, <3>4
    <3>6. /\ days'[d] = snap'[f][d]
          /\ at'[f] = d => read'[f] <= heap'[snap'[f][d]]
      BY <1>1, <3>2 DEF Alone
    <3> QED BY <2>1, <3>3, <3>5, <3>6 DEF Alone
  <2>2. CASE g # f
    BY <1>1, <1>4, <2>2, StillAlone DEF Once
  <2> QED BY <2>1, <2>2
<1>7. CountedOnce'
  <2> SUFFICES ASSUME NEW d \in Day, d \notin twice'
               PROVE  table'[d] + (IF Storing(d)' THEN 0 ELSE Mem(d)') <= used'[d]
    BY DEF CountedOnce
  <2>1. d \notin twice /\ used'[d] = used[d] /\ table'[d] = table[d] + tx[f][d]
    BY <1>1, <1>2
  <2>2. /\ Mem(d) \in Nat /\ used[d] \in Nat /\ table[d] \in Nat
        /\ days[d] # 0 => Mem(d) = heap[days[d]]
    BY CountsNat
  <2>3. tx[f][d] \in Nat
    BY DEF TypeOK
  <2>4. Mem(d)' = Mem(d)
    BY <1>1 DEF Mem
  <2>5. CASE d \in Days(f)
    <3>1. Alone(f, d)
      BY <2>1, <2>5 DEF Once, OneHand
    <3>2. ~ Storing(d)
      BY <1>1, <3>1 DEF Storing, Alone
    <3>3. tx[f][d] <= Mem(d)
      BY <2>2, <2>5, <3>1 DEF Alone, Days
    <3>4. Storing(d)'
      BY <1>1, <1>4, <2>5 DEF Storing
    <3>5. table[d] + Mem(d) <= used[d]
      BY <2>1, <3>2 DEF Once, CountedOnce
    <3> QED BY <2>1, <2>2, <2>3, <3>3, <3>4, <3>5
  <2>6. CASE d \notin Days(f)
    <3>1. tx[f][d] = 0
      BY <2>6 DEF Once, Open
    <3>2. table'[d] = table[d]
      BY <2>1, <2>2, <3>1
    <3>3. Storing(d)' <=> Storing(d)
      BY <1>1, <1>4, <2>6, StoringStays
    <3> QED BY <2>1, <2>4, <3>2, <3>3, CountStays DEF Once
  <2> QED BY <2>5, <2>6
<1> QED BY <1>5, <1>6, <1>7 DEF Once

\* An ended flush has no day and nothing in its transaction.
LEMMA EndOpen ==
  ASSUME TypeOK, Open, NEW f \in Flusher, End(f)
  PROVE  Open' /\ Days(f)' = {} /\ Others(f) /\ pc'[f] = "idle"
<1>1. Others(f) /\ pc'[f] = "idle" /\ snap'[f] = None /\ tx'[f] = None
  BY EndEffect
<1>2. Days(f)' = {}
  BY <1>1 DEF Days, None
<1>3. \A d \in Day : tx'[f][d] = 0
  BY <1>1 DEF None
<1>4. \A g \in Flusher \ {f} : Days(g)' = Days(g)
  BY <1>1 DEF Others, Days
<1>5. Open'
  BY <1>1, <1>3, <1>4 DEF Open, Others
<1> QED BY <1>1, <1>2, <1>5

\* Pop: what the table has is forgotten
LEMMA OncePop ==
  ASSUME TypeOK, Once, NEW f \in Flusher, Pop(f)
  PROVE  Once'
<1>1. /\ End(f) /\ pc[f] = "pop"
      /\ days' = [d \in Day |-> IF d \in Days(f) THEN 0 ELSE days[d]]
      /\ UNCHANGED <<heap, table, used, late, twice>>
  BY PopEffect
<1>2. Open' /\ Days(f)' = {} /\ Others(f) /\ pc'[f] = "idle"
  BY <1>1, EndOpen DEF Once
<1>3. OneHand'
  <2> SUFFICES ASSUME NEW g \in Flusher, NEW d \in Days(g)', d \notin twice' PROVE Alone(g, d)'
    BY DEF OneHand
  <2>1. g # f
    BY <1>2
  <2>2. d \in Days(g) /\ d \in Day
    BY <1>2, <2>1 DEF Others, Days
  <2>3. Alone(g, d)
    BY <1>1, <2>2 DEF Once, OneHand
  <2>4. d \notin Days(f)
    BY <2>1, <2>3 DEF Alone
  <2>5. days'[d] = days[d]
    BY <1>1, <2>2, <2>4
  <2> QED BY <1>1, <1>2, <2>1, <2>5, StillAlone DEF Once
<1>4. CountedOnce'
  <2> SUFFICES ASSUME NEW d \in Day, d \notin twice'
               PROVE  table'[d] + (IF Storing(d)' THEN 0 ELSE Mem(d)') <= used'[d]
    BY DEF CountedOnce
  <2>1. d \notin twice /\ used'[d] = used[d] /\ table'[d] = table[d]
    BY <1>1
  <2>2. table[d] + (IF Storing(d) THEN 0 ELSE Mem(d)) <= used[d] /\ table[d] \in Nat
    BY <2>1, CountsNat DEF Once, CountedOnce
  <2>3. CASE d \in Days(f)
    <3>1. Storing(d) /\ Mem(d)' = 0
      BY <1>1, <2>3 DEF Storing, Mem
    <3> QED BY <2>1, <2>2, <3>1
  <2>4. CASE d \notin Days(f)
    <3>1. Mem(d)' = Mem(d)
      BY <1>1, <2>4 DEF Mem
    <3>2. Storing(d)' <=> Storing(d)
      BY <1>2, <2>4, StoringStays
    <3> QED BY <2>1, <3>1, <3>2, CountStays DEF Once
  <2> QED BY <2>3, <2>4
<1> QED BY <1>2, <1>3, <1>4 DEF Once

\* a flush that ends after its commit gives its days up
LEMMA OnceAbort ==
  ASSUME TypeOK, Once, NEW f \in Flusher, Abort(f)
  PROVE  Once'
<1>1. /\ End(f) /\ UNCHANGED <<heap, days, used, late>>
      /\ twice \subseteq twice'
      /\ \/ table' = table /\ (pc[f] = "pop" => Days(f) \subseteq twice')
         \/ pc[f] = "commit" /\ Store(f) /\ Days(f) \subseteq twice'
  BY DEF Abort
<1>2. Open' /\ Days(f)' = {} /\ Others(f) /\ pc'[f] = "idle"
  BY <1>1, EndOpen DEF Once
<1>3. OneHand'
  <2> SUFFICES ASSUME NEW g \in Flusher, NEW d \in Days(g)', d \notin twice' PROVE Alone(g, d)'
    BY DEF OneHand
  <2> QED BY <1>1, <1>2, StillAlone DEF Once
<1>4. CountedOnce'
  <2> SUFFICES ASSUME NEW d \in Day, d \notin twice'
               PROVE  table'[d] + (IF Storing(d)' THEN 0 ELSE Mem(d)') <= used'[d]
    BY DEF CountedOnce
  <2>1. d \notin twice /\ used'[d] = used[d] /\ Mem(d)' = Mem(d)
    BY <1>1 DEF Mem
  <2>2. Storing(d)' <=> Storing(d)
    <3>1. ~ (pc[f] = "pop" /\ d \in Days(f))
      BY <1>1
    <3> QED BY <1>2, <3>1, StoringStays
  <2>3. table'[d] = table[d]
    <3>1. CASE Store(f) /\ Days(f) \subseteq twice'
      <4>1. tx[f][d] = 0
        BY <3>1 DEF Once, Open
      <4>2. table'[d] = table[d] + tx[f][d] /\ table[d] \in Nat
        BY <3>1, StoreType, CountsNat
      <4> QED BY <4>1, <4>2
    <3> QED BY <1>1, <3>1
  <2> QED BY <2>1, <2>2, <2>3, CountStays DEF Once
<1> QED BY <1>2, <1>3, <1>4 DEF Once

LEMMA OnceAside == ASSUME Once, Aside PROVE Once'
<1>1. UNCHANGED <<heap, days, table, pc, snap, at, read, tx, used, late, twice>>
  BY DEF Aside, flushVars
<1>2. Open'
  BY <1>1 DEF Once, Open, Days
<1>3. OneHand'
  BY <1>1 DEF Once, OneHand, Alone, Days
<1>4. CountedOnce'
  BY <1>1 DEF Once, CountedOnce, Storing, Days, Mem
<1> QED BY <1>2, <1>3, <1>4 DEF Once

LEMMA OnceInit == Init => Once
<1> SUFFICES ASSUME Init PROVE Once
  OBVIOUS
<1>1. None \in [Day -> Nat] /\ \A d \in Day : None[d] = 0
  BY DEF None
<1>2. \A f \in Flusher : Days(f) = {} /\ tx[f] = None
  BY <1>1 DEF Init, Days
<1>3. Open /\ OneHand
  BY <1>1, <1>2 DEF Open, OneHand
<1>4. table = None /\ days = None /\ used = None
  BY DEF Init
<1>5. \A d \in Day : table[d] = 0 /\ Mem(d) = 0 /\ used[d] = 0 /\ ~ Storing(d)
  BY <1>1, <1>2, <1>4 DEF Mem, Storing
<1> QED BY <1>3, <1>5 DEF Once, CountedOnce

LEMMA OnceNext == TypeOK /\ Once /\ [Next]_vars => Once'
<1> SUFFICES ASSUME TypeOK, Once, [Next]_vars PROVE Once'
  OBVIOUS
<1>1. Aside \/ record_used \/ \E f \in Flusher : Moves(f)
  BY StepKinds
<1>2. CASE Aside
  BY <1>2, OnceAside
<1>3. CASE record_used
  BY <1>3, OnceRecord
<1>4. ASSUME NEW f \in Flusher, Moves(f) PROVE Once'
  BY <1>4, OnceFlush, OnceExecute, OnceCommit, OncePop, OnceAbort DEF Moves
<1> QED BY <1>1, <1>2, <1>3, <1>4

\* A day no overlapping flush and no lost pop has touched is counted at most
\* once: the table and the memory together never exceed what was recorded.
THEOREM NoDoubleCount == Spec => []CountedOnce
<1>1. Init => Once
  BY OnceInit
<1>2. TypeOK /\ Once /\ [Next]_vars => Once'
  BY OnceNext
<1>3. Once => CountedOnce
  BY DEF Once
<1> QED BY <1>1, <1>2, <1>3, TypeCorrect, PTL DEF Spec
=============================================================================
