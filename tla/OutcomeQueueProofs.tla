------------------------- MODULE OutcomeQueueProofs -------------------------
(***************************************************************************)
(* Proofs about the accuracy outcome queue, for every limit, every number  *)
(* of outcomes and failing flushes and every combination of faults.        *)
(***************************************************************************)
EXTENDS OutcomeQueue, TLAPS

-----------------------------------------------------------------------------
(* Sequences of outcomes. *)

\* Appending an outcome adds it to the items.
LEMMA ItemsAppend ==
  ASSUME NEW s \in Seq(Nat), NEW n \in Nat
  PROVE  Items(Append(s, n)) = Items(s) \cup {n}
<1>1. /\ Append(s, n) \in Seq(Nat) /\ DOMAIN Append(s, n) = 1..(Len(s) + 1)
      /\ DOMAIN s = 1..Len(s) /\ Len(s) \in Nat
      /\ Append(s, n)[Len(s) + 1] = n
      /\ \A i \in 1..Len(s) : Append(s, n)[i] = s[i]
  OBVIOUS
<1>2. ASSUME NEW x \in Items(Append(s, n)) PROVE x \in Items(s) \cup {n}
  BY <1>1, <1>2 DEF Items
<1>3. ASSUME NEW x \in Items(s) \cup {n} PROVE x \in Items(Append(s, n))
  BY <1>1, <1>3 DEF Items
<1> QED BY <1>2, <1>3

\* Putting one sequence before another joins their items.
LEMMA ItemsConcat ==
  ASSUME NEW s \in Seq(Nat), NEW t \in Seq(Nat)
  PROVE  Items(s \o t) = Items(s) \cup Items(t)
<1>1. /\ DOMAIN (s \o t) = 1..(Len(s) + Len(t))
      /\ DOMAIN s = 1..Len(s) /\ DOMAIN t = 1..Len(t)
      /\ Len(s) \in Nat /\ Len(t) \in Nat
      /\ \A i \in 1..Len(s) : (s \o t)[i] = s[i]
      /\ \A i \in 1..Len(t) : (s \o t)[Len(s) + i] = t[i]
  OBVIOUS
<1>2. ASSUME NEW x \in Items(s \o t) PROVE x \in Items(s) \cup Items(t)
  <2>1. PICK i \in 1..(Len(s) + Len(t)) : x = (s \o t)[i]
    BY <1>1, <1>2 DEF Items
  <2>2. CASE i <= Len(s)
    BY <1>1, <2>1, <2>2 DEF Items
  <2>3. CASE i > Len(s)
    <3>1. i - Len(s) \in 1..Len(t) /\ Len(s) + (i - Len(s)) = i
      BY <1>1, <2>3
    <3> QED BY <1>1, <2>1, <3>1 DEF Items
  <2> QED BY <1>1, <2>1, <2>2, <2>3
<1>3. ASSUME NEW x \in Items(s) PROVE x \in Items(s \o t)
  BY <1>1, <1>3 DEF Items
<1>4. ASSUME NEW x \in Items(t) PROVE x \in Items(s \o t)
  <2>1. PICK i \in 1..Len(t) : x = t[i]
    BY <1>1, <1>4 DEF Items
  <2>2. Len(s) + i \in 1..(Len(s) + Len(t)) /\ (s \o t)[Len(s) + i] = x
    BY <1>1, <2>1
  <2> QED BY <1>1, <2>2 DEF Items
<1> QED BY <1>2, <1>3, <1>4

\* A sequence loses at most its head when its tail is taken.
LEMMA ItemsTail ==
  ASSUME NEW s \in Seq(Nat), s # <<>>
  PROVE  Items(s) = Items(Tail(s)) \cup {Head(s)}
<1>1. /\ DOMAIN s = 1..Len(s) /\ Len(s) \in Nat /\ Len(s) >= 1
      /\ DOMAIN Tail(s) = 1..(Len(s) - 1)
      /\ \A i \in 1..(Len(s) - 1) : Tail(s)[i] = s[i + 1]
      /\ Head(s) = s[1]
  OBVIOUS
<1>2. ASSUME NEW x \in Items(s) PROVE x \in Items(Tail(s)) \cup {Head(s)}
  <2>1. PICK i \in 1..Len(s) : x = s[i]
    BY <1>1, <1>2 DEF Items
  <2>2. CASE i > 1
    <3>1. i - 1 \in 1..(Len(s) - 1) /\ (i - 1) + 1 = i
      BY <1>1, <2>1, <2>2
    <3> QED BY <1>1, <2>1, <3>1 DEF Items
  <2> QED BY <1>1, <2>1, <2>2
<1>3. ASSUME NEW x \in Items(Tail(s)) PROVE x \in Items(s)
  <2>1. PICK i \in 1..(Len(s) - 1) : x = Tail(s)[i]
    BY <1>1, <1>3 DEF Items
  <2>2. i + 1 \in 1..Len(s) /\ x = s[i + 1]
    BY <1>1, <2>1
  <2> QED BY <1>1, <2>2 DEF Items
<1>4. Head(s) \in Items(s)
  BY <1>1 DEF Items
<1> QED BY <1>2, <1>3, <1>4

\* The empty sequence has no items.
LEMMA ItemsEmpty == Items(<<>>) = {}
BY DEF Items

\* Every item of a sequence over a set is in the set.
LEMMA ItemsIn ==
  ASSUME NEW S, NEW s \in Seq(S)
  PROVE  Items(s) \subseteq S
<1>1. DOMAIN s = 1..Len(s) /\ \A i \in 1..Len(s) : s[i] \in S
  OBVIOUS
<1> QED BY <1>1 DEF Items
-----------------------------------------------------------------------------
(* Types. *)

\* A longer range keeps the sequences of a shorter one.
LEMMA SeqWiden ==
  ASSUME NEW n \in Nat, NEW s \in Seq(1..n)
  PROVE  s \in Seq(1..(n + 1))
<1>1. DOMAIN s = 1..Len(s) /\ Len(s) \in Nat /\ \A i \in 1..Len(s) : s[i] \in 1..(n + 1)
  OBVIOUS
<1> QED BY <1>1

\* A behaviour starts in a state of the right types (the constructor).
LEMMA TypeInit == Init => TypeOK
BY BoundAssumption DEF Init, TypeOK

\* Every operation keeps the types: only outcomes that were enqueued are in the
\* queue, in a batch or in the table.
LEMMA TypeNext == TypeOK /\ [Next]_vars => TypeOK'
<1> SUFFICES ASSUME TypeOK, [Next]_vars PROVE TypeOK'
  OBVIOUS
<1> USE BoundAssumption
<1>t. /\ next \in Nat /\ next >= 1 /\ next - 1 \in Nat
  BY DEF TypeOK
<1>1. CASE enqueue
  <2> DEFINE rest == IF Len(queue) >= MaxSize THEN Tail(queue) ELSE queue
  <2>0. next' = next + 1 /\ next <= MaxOutcome /\ next' - 1 = (next - 1) + 1
    BY <1>1, <1>t DEF enqueue
  <2>1. Len(queue) >= MaxSize => queue # <<>>
    BY DEF TypeOK
  <2>2. rest \in Seq(1..(next - 1))
    <3>1. queue \in Seq(1..(next - 1))
      BY DEF TypeOK
    <3>2. ASSUME queue # <<>> PROVE Tail(queue) \in Seq(1..(next - 1))
      BY <3>1, <3>2
    <3> QED BY <2>1, <3>1, <3>2
  <2>3. rest \in Seq(1..(next' - 1)) /\ next \in 1..(next' - 1)
    BY <2>0, <2>2, <1>t, SeqWiden
  <2>4. queue' \in Seq(1..(next' - 1))
    <3>1. queue' = Append(rest, next)
      BY <1>1 DEF enqueue
    <3> HIDE DEF rest
    <3> QED BY <2>3, <3>1
  <2>5. batch' \in Seq(1..(next' - 1)) /\ stored' \in Seq(1..(next' - 1))
    BY <1>1, <2>0, <1>t, SeqWiden DEF enqueue, TypeOK
  <2>6. dropped' \subseteq 1..(next' - 1)
    <3>1. Len(queue) >= MaxSize => Head(queue) \in 1..(next - 1)
      BY <2>1 DEF TypeOK
    <3>2. dropped \subseteq 1..(next - 1)
      BY DEF TypeOK
    <3>3. dropped' = dropped \/ (Len(queue) >= MaxSize /\ dropped' = dropped \cup {Head(queue)})
      BY <1>1 DEF enqueue
    <3>4. 1..(next - 1) \subseteq 1..(next' - 1)
      BY <2>0, <1>t
    <3>5. ASSUME NEW x \in dropped' PROVE x \in 1..(next' - 1)
      <4>1. x \in dropped \/ (Len(queue) >= MaxSize /\ x = Head(queue))
        BY <3>3, <3>5
      <4>2. x \in 1..(next - 1)
        BY <3>1, <3>2, <4>1
      <4> QED BY <3>4, <4>2
    <3> QED BY <3>5
  <2> QED BY <1>1, <2>0, <2>4, <2>5, <2>6, <1>t DEF enqueue, TypeOK
<1>2. CASE TimerFlush
  BY <1>2 DEF TimerFlush, flush, histVars, TypeOK
<1>3. CASE Written
  BY <1>3 DEF Written, histVars, TypeOK
<1>4. CASE FlushRaises
  BY <1>4 DEF FlushRaises, Requeue, TypeOK
<1>5. CASE FlushRaisesLate
  <2>1. Items(batch) \subseteq 1..(next - 1)
    BY ItemsIn DEF TypeOK
  <2>2. again' \subseteq 1..(next' - 1)
    BY <1>5, <2>1 DEF FlushRaisesLate, TypeOK
  <2>3. queue' \in Seq(1..(next' - 1)) /\ stored' \in Seq(1..(next' - 1))
    BY <1>5 DEF FlushRaisesLate, Requeue, TypeOK
  <2> QED BY <1>5, <2>2, <2>3 DEF FlushRaisesLate, TypeOK
<1>6. CASE Stop
  <2>1. Items(batch) \subseteq 1..(next - 1)
    BY ItemsIn DEF TypeOK
  <2>2. lost' \subseteq 1..(next' - 1)
    <3>1. lost' = lost \/ lost' = lost \cup Items(batch)
      BY <1>6 DEF Stop
    <3>2. lost \subseteq 1..(next - 1) /\ next' = next
      BY <1>6 DEF Stop, TypeOK
    <3> QED BY <2>1, <3>1, <3>2
  <2>3. batch' \in Seq(1..(next' - 1)) /\ stored' \in Seq(1..(next' - 1))
    <3>1. batch' = <<>> /\ next' = next /\ (stored' = stored \/ stored' = stored \o batch)
      BY <1>6 DEF Stop
    <3>2. batch \in Seq(1..(next - 1)) /\ stored \in Seq(1..(next - 1))
      BY DEF TypeOK
    <3>3. <<>> \in Seq(1..(next - 1)) /\ stored \o batch \in Seq(1..(next - 1))
      BY <3>2
    <3> QED BY <3>1, <3>2, <3>3, Zenon
  <2> QED BY <1>6, <2>2, <2>3 DEF Stop, TypeOK
<1>7. CASE StopFlush
  BY <1>7 DEF StopFlush, flush, histVars, TypeOK
<1>8. CASE UNCHANGED vars
  BY <1>8 DEF vars, histVars, TypeOK
<1> QED BY <1>1, <1>2, <1>3, <1>4, <1>5, <1>6, <1>7, <1>8 DEF Next

\* The queue, the batch and the table only ever hold outcomes that were
\* enqueued, and a flush that fails counts once (AccuracyOutcomeQueue).
THEOREM QueueTypeCorrect == Spec => []TypeOK
<1>1. Init => TypeOK
  BY TypeInit
<1>2. TypeOK /\ [Next]_vars => TypeOK'
  BY TypeNext
<1> QED BY <1>1, <1>2, PTL DEF Spec

-----------------------------------------------------------------------------
(* No outcome disappears. *)

\* The sequences of a state are sequences of naturals.
LEMMA Naturals == TypeOK => queue \in Seq(Nat) /\ batch \in Seq(Nat) /\ stored \in Seq(Nat)
<1> SUFFICES ASSUME TypeOK PROVE queue \in Seq(Nat) /\ batch \in Seq(Nat) /\ stored \in Seq(Nat)
  OBVIOUS
<1>1. next - 1 \in Nat
  BY BoundAssumption DEF TypeOK
<1>2. ASSUME NEW s \in Seq(1..(next - 1)) PROVE s \in Seq(Nat)
  <2>1. DOMAIN s = 1..Len(s) /\ Len(s) \in Nat /\ \A i \in 1..Len(s) : s[i] \in Nat
    BY <1>1
  <2> QED BY <2>1
<1> QED BY <1>2 DEF TypeOK

\* Every step leaves each outcome in one of the places it may be in: what
\* leaves the queue is dropped and counted, what leaves a batch is stored, queued
\* again or lost with the cancelled flush.
LEMMA AccountedNext == TypeOK /\ Accounted /\ [Next]_vars => Accounted'
<1> SUFFICES ASSUME TypeOK, Accounted, [Next]_vars PROVE Accounted'
  OBVIOUS
<1> USE BoundAssumption
<1>n. queue \in Seq(Nat) /\ batch \in Seq(Nat) /\ stored \in Seq(Nat)
  BY Naturals
<1>1. CASE enqueue
  <2> DEFINE rest == IF Len(queue) >= MaxSize THEN Tail(queue) ELSE queue
  <2>1. Len(queue) >= MaxSize => queue # <<>>
    BY <1>n
  <2>2. rest \in Seq(Nat) /\ next \in Nat
    BY <1>n, <2>1 DEF TypeOK
  <2>3. Items(queue') = Items(rest) \cup {next}
    <3>1. queue' = Append(rest, next)
      BY <1>1 DEF enqueue
    <3> HIDE DEF rest
    <3> QED BY <2>2, <3>1, ItemsAppend
  <2>4. Items(rest) \cup dropped' = Items(queue) \cup dropped
    <3>1. CASE Len(queue) >= MaxSize
      <4>1. Items(queue) = Items(Tail(queue)) \cup {Head(queue)}
        BY <1>n, <2>1, <3>1, ItemsTail
      <4>2. rest = Tail(queue) /\ dropped' = dropped \cup {Head(queue)}
        BY <1>1, <3>1 DEF enqueue
      <4> QED BY <4>1, <4>2
    <3>2. CASE ~(Len(queue) >= MaxSize)
      BY <1>1, <3>2 DEF enqueue
    <3> QED BY <3>1, <3>2
  <2>5. 1..(next' - 1) = (1..(next - 1)) \cup {next}
    BY <1>1 DEF enqueue, TypeOK
  <2>6. batch' = batch /\ stored' = stored /\ lost' = lost
    BY <1>1 DEF enqueue
  <2> HIDE DEF rest
  <2> QED BY <2>3, <2>4, <2>5, <2>6 DEF Accounted
<1>f. ASSUME flush, UNCHANGED <<stored, histVars>> PROVE Accounted'
  BY <1>f, ItemsEmpty DEF flush, histVars, Accounted
<1>2. CASE TimerFlush
  BY <1>2, <1>f DEF TimerFlush, flush
<1>3. CASE Written
  <2>1. Items(stored') = Items(stored) \cup Items(batch)
    BY <1>3, <1>n, ItemsConcat DEF Written
  <2> QED BY <1>3, <2>1, ItemsEmpty DEF Written, histVars, Accounted
<1>4. CASE FlushRaises
  <2>1. Items(queue') = Items(batch) \cup Items(queue)
    BY <1>4, <1>n, ItemsConcat DEF FlushRaises, Requeue
  <2> QED BY <1>4, <2>1, ItemsEmpty DEF FlushRaises, Accounted
<1>5. CASE FlushRaisesLate
  <2>1. Items(queue') = Items(batch) \cup Items(queue)
    BY <1>5, <1>n, ItemsConcat DEF FlushRaisesLate, Requeue
  <2>2. Items(stored') = Items(stored) \cup Items(batch)
    BY <1>5, <1>n, ItemsConcat DEF FlushRaisesLate
  <2> QED BY <1>5, <2>1, <2>2, ItemsEmpty DEF FlushRaisesLate, Accounted
<1>6. CASE Stop
  <2>1. Items(stored \o batch) = Items(stored) \cup Items(batch)
    BY <1>n, ItemsConcat
  <2> QED BY <1>6, <2>1, ItemsEmpty DEF Stop, Accounted
<1>7. CASE StopFlush
  BY <1>7, <1>f DEF StopFlush, flush, histVars, Accounted
<1>8. CASE UNCHANGED vars
  BY <1>8 DEF vars, histVars, Accounted
<1> QED BY <1>1, <1>2, <1>3, <1>4, <1>5, <1>6, <1>7, <1>8 DEF Next

\* No outcome disappears silently, whatever flushes fail and whenever the
\* application stops (enqueue's "never silent", flush's "never drop silently").
THEOREM NeverSilent == Spec => []Accounted
<1>1. Init => TypeOK /\ Accounted
  <2>1. Init => Accounted
    BY ItemsEmpty DEF Init, Accounted
  <2> QED BY <2>1, TypeInit
<1>2. TypeOK /\ Accounted /\ [Next]_vars => TypeOK' /\ Accounted'
  BY TypeNext, AccountedNext
<1> QED BY <1>1, <1>2, PTL DEF Spec

-----------------------------------------------------------------------------
(* The bound. *)

\* Arithmetic of the bound: it is at least maxsize, and one more failed flush
\* raises it by maxsize.
LEMMA BoundGrows ==
  ASSUME NEW f \in Nat
  PROVE  /\ MaxSize * (f + 1) \in Nat
         /\ MaxSize <= MaxSize * (f + 1)
         /\ MaxSize * ((f + 1) + 1) = MaxSize * (f + 1) + MaxSize
BY BoundAssumption

\* Every step keeps the bound. While a batch is out, the queue itself stays
\* within maxsize, which is what may come on top when the batch returns.
LEMMA BoundedNext == TypeOK /\ Bounded /\ [Next]_vars => Bounded'
<1> SUFFICES ASSUME TypeOK, Bounded, [Next]_vars PROVE Bounded'
  OBVIOUS
<1>n. queue \in Seq(Nat) /\ batch \in Seq(Nat) /\ Len(queue) \in Nat /\ Len(batch) \in Nat
  BY Naturals
<1>m. MaxSize \in Nat /\ MaxSize >= 1 /\ failed \in Nat
  BY BoundAssumption DEF TypeOK
<1> DEFINE limit == MaxSize * (failed + 1)
<1>b. /\ limit \in Nat /\ MaxSize <= limit
      /\ MaxSize * ((failed + 1) + 1) = limit + MaxSize
  BY <1>m, BoundGrows
<1>o. /\ Len(batch) <= limit
      /\ batch = <<>> => Len(queue) <= limit
      /\ batch # <<>> => Len(queue) <= MaxSize
  BY DEF Bounded
<1>c. ASSUME failed' = failed, Len(batch') <= limit,
             batch' = <<>> => Len(queue') <= limit,
             batch' # <<>> => Len(queue') <= MaxSize
      PROVE  Bounded'
  BY <1>c DEF Bounded
<1> HIDE DEF limit
<1>1. CASE enqueue
  <2>1. batch' = batch /\ failed' = failed
    BY <1>1 DEF enqueue
  <2>2. CASE Len(queue) >= MaxSize
    <3>1. queue # <<>> /\ Tail(queue) \in Seq(Nat) /\ Len(Tail(queue)) = Len(queue) - 1
      BY <1>n, <1>m, <2>2
    <3>2. queue' = Append(Tail(queue), next)
      BY <1>1, <2>2 DEF enqueue
    <3>3. Len(queue') = Len(queue)
      BY <1>n, <3>1, <3>2
    <3> QED BY <1>c, <1>o, <2>1, <3>3
  <2>3. CASE ~(Len(queue) >= MaxSize)
    <3>1. Len(queue') = Len(queue) + 1
      BY <1>1, <1>n, <2>3 DEF enqueue
    <3>2. Len(queue') <= MaxSize
      BY <1>n, <1>m, <2>3, <3>1
    <3>3. Len(queue') <= limit
      BY <1>n, <1>m, <1>b, <3>1, <3>2
    <3> QED BY <1>c, <1>o, <2>1, <3>2, <3>3
  <2> QED BY <2>2, <2>3
<1>f. ASSUME flush PROVE Bounded'
  <2>1. /\ batch = <<>> /\ batch' = queue /\ queue' = <<>> /\ failed' = failed
    BY <1>f DEF flush, histVars
  <2>2. Len(queue') = 0
    BY <2>1
  <2> QED BY <1>c, <1>o, <1>b, <1>m, <2>1, <2>2
<1>e. ASSUME batch' = <<>>, queue' = queue, failed' = failed PROVE Bounded'
  <2>1. Len(batch') = 0
    BY <1>e
  <2>2. Len(queue) <= limit
    BY <1>o, <1>n, <1>m, <1>b
  <2> QED BY <1>c, <1>b, <1>e, <2>1, <2>2
<1>2. CASE TimerFlush
  BY <1>2, <1>f DEF TimerFlush
<1>3. CASE Written
  BY <1>3, <1>e DEF Written, histVars
<1>r. ASSUME batch # <<>>, Requeue, batch' = <<>>, failed' = failed + 1 PROVE Bounded'
  <2>1. Len(queue') = Len(batch) + Len(queue)
    BY <1>r, <1>n DEF Requeue
  <2>2. Len(queue') <= limit + MaxSize
    BY <1>r, <1>o, <1>n, <1>m, <1>b, <2>1
  <2>3. MaxSize * (failed' + 1) = limit + MaxSize
    BY <1>r, <1>b
  <2>4. Len(batch') = 0 /\ 0 <= limit + MaxSize
    BY <1>r, <1>b, <1>m
  <2> QED BY <1>r, <2>2, <2>3, <2>4 DEF Bounded
<1>4. CASE FlushRaises
  BY <1>4, <1>r DEF FlushRaises
<1>5. CASE FlushRaisesLate
  BY <1>5, <1>r DEF FlushRaisesLate
<1>6. CASE Stop
  BY <1>6, <1>e DEF Stop
<1>7. CASE StopFlush
  <2>1. CASE flush
    BY <2>1, <1>f
  <2>2. CASE UNCHANGED <<queue, batch, stored, histVars>>
    BY <2>2 DEF histVars, Bounded
  <2> QED BY <1>7, <2>1, <2>2 DEF StopFlush
<1>8. CASE UNCHANGED vars
  BY <1>8 DEF vars, histVars, Bounded
<1> QED BY <1>1, <1>2, <1>3, <1>4, <1>5, <1>6, <1>7, <1>8 DEF Next

\* The queue never grows past maxsize by more than one maxsize for every failed
\* flush (enqueue's overflow check and the unchecked re-queue of flush).
THEOREM BoundHolds == Spec => []Bounded
<1>1. Init => TypeOK /\ Bounded
  <2>1. Init => Bounded
    BY BoundAssumption, BoundGrows DEF Init, Bounded
  <2> QED BY <2>1, TypeInit
<1>2. TypeOK /\ Bounded /\ [Next]_vars => TypeOK' /\ Bounded'
  BY TypeNext, BoundedNext
<1> QED BY <1>1, <1>2, PTL DEF Spec

-----------------------------------------------------------------------------
(* The order. *)

\* The outcomes of s grow strictly.
Ascending(s) == \A i, j \in DOMAIN s : i < j => s[i] < s[j]

\* Every outcome of s was enqueued after those of t, but for the ones in A.
After(s, t, A) == \A x \in Items(t), y \in Items(s) : x \in A \/ x < y

\* A joined sequence ascends when its parts do and the second comes after the
\* first.
LEMMA AscendingConcat ==
  ASSUME NEW s \in Seq(Nat), NEW t \in Seq(Nat)
  PROVE  Ascending(s \o t) <=> Ascending(s) /\ Ascending(t) /\ After(t, s, {})
<1>1. /\ DOMAIN (s \o t) = 1..(Len(s) + Len(t))
      /\ DOMAIN s = 1..Len(s) /\ DOMAIN t = 1..Len(t)
      /\ Len(s) \in Nat /\ Len(t) \in Nat
      /\ \A i \in 1..Len(s) : (s \o t)[i] = s[i] /\ s[i] \in Nat
      /\ \A i \in 1..Len(t) : (s \o t)[Len(s) + i] = t[i] /\ t[i] \in Nat
  OBVIOUS
<1>2. ASSUME Ascending(s \o t) PROVE Ascending(s)
  <2> SUFFICES ASSUME NEW i \in 1..Len(s), NEW j \in 1..Len(s), i < j PROVE s[i] < s[j]
    BY <1>1 DEF Ascending
  <2>1. i \in 1..(Len(s) + Len(t)) /\ j \in 1..(Len(s) + Len(t))
    BY <1>1
  <2>2. (s \o t)[i] < (s \o t)[j]
    BY <1>1, <1>2, <2>1 DEF Ascending
  <2> QED BY <1>1, <2>2
<1>3. ASSUME Ascending(s \o t) PROVE Ascending(t)
  <2> SUFFICES ASSUME NEW i \in 1..Len(t), NEW j \in 1..Len(t), i < j PROVE t[i] < t[j]
    BY <1>1 DEF Ascending
  <2>1. Len(s) + i \in 1..(Len(s) + Len(t)) /\ Len(s) + j \in 1..(Len(s) + Len(t)) /\ Len(s) + i < Len(s) + j
    BY <1>1
  <2>2. (s \o t)[Len(s) + i] < (s \o t)[Len(s) + j]
    BY <1>1, <1>3, <2>1 DEF Ascending
  <2> QED BY <1>1, <2>2
<1>4. ASSUME Ascending(s \o t) PROVE After(t, s, {})
  <2> SUFFICES ASSUME NEW i \in 1..Len(s), NEW j \in 1..Len(t) PROVE s[i] < t[j]
    BY <1>1 DEF After, Items
  <2>1. i \in 1..(Len(s) + Len(t)) /\ Len(s) + j \in 1..(Len(s) + Len(t)) /\ i < Len(s) + j
    BY <1>1
  <2>2. (s \o t)[i] < (s \o t)[Len(s) + j]
    BY <1>1, <1>4, <2>1 DEF Ascending
  <2> QED BY <1>1, <2>2
<1>5. ASSUME Ascending(s), Ascending(t), After(t, s, {}) PROVE Ascending(s \o t)
  <2> SUFFICES ASSUME NEW i \in 1..(Len(s) + Len(t)), NEW j \in 1..(Len(s) + Len(t)), i < j
               PROVE  (s \o t)[i] < (s \o t)[j]
    BY <1>1 DEF Ascending
  <2>1. CASE j <= Len(s)
    <3>1. i \in 1..Len(s) /\ j \in 1..Len(s)
      BY <1>1, <2>1
    <3> QED BY <1>1, <1>5, <3>1 DEF Ascending
  <2>2. CASE i <= Len(s) /\ j > Len(s)
    <3>1. i \in 1..Len(s) /\ j - Len(s) \in 1..Len(t) /\ Len(s) + (j - Len(s)) = j
      BY <1>1, <2>2
    <3>2. s[i] < t[j - Len(s)]
      BY <1>1, <1>5, <3>1 DEF After, Items
    <3> QED BY <1>1, <3>1, <3>2
  <2>3. CASE i > Len(s)
    <3>1. /\ i - Len(s) \in 1..Len(t) /\ Len(s) + (i - Len(s)) = i
          /\ j - Len(s) \in 1..Len(t) /\ Len(s) + (j - Len(s)) = j
          /\ i - Len(s) < j - Len(s)
      BY <1>1, <2>3
    <3>2. t[i - Len(s)] < t[j - Len(s)]
      BY <1>1, <1>5, <3>1 DEF Ascending
    <3> QED BY <1>1, <3>1, <3>2
  <2> QED BY <1>1, <2>1, <2>2, <2>3
<1> QED BY <1>2, <1>3, <1>4, <1>5

\* The tail of an ascending sequence ascends.
LEMMA AscendingTail ==
  ASSUME NEW s \in Seq(Nat), s # <<>>, Ascending(s)
  PROVE  Ascending(Tail(s))
<1>1. /\ DOMAIN s = 1..Len(s) /\ Len(s) \in Nat
      /\ DOMAIN Tail(s) = 1..(Len(s) - 1)
      /\ \A i \in 1..(Len(s) - 1) : Tail(s)[i] = s[i + 1]
  OBVIOUS
<1> SUFFICES ASSUME NEW i \in 1..(Len(s) - 1), NEW j \in 1..(Len(s) - 1), i < j
             PROVE  Tail(s)[i] < Tail(s)[j]
  BY <1>1 DEF Ascending
<1>2. i + 1 \in 1..Len(s) /\ j + 1 \in 1..Len(s) /\ i + 1 < j + 1
  BY <1>1
<1> QED BY <1>1, <1>2 DEF Ascending

\* Appending an outcome later than all others keeps a sequence ascending.
LEMMA AscendingAppend ==
  ASSUME NEW s \in Seq(Nat), NEW n \in Nat, Ascending(s), \A x \in Items(s) : x < n
  PROVE  Ascending(Append(s, n))
<1>1. /\ DOMAIN Append(s, n) = 1..(Len(s) + 1)
      /\ DOMAIN s = 1..Len(s) /\ Len(s) \in Nat
      /\ Append(s, n)[Len(s) + 1] = n
      /\ \A i \in 1..Len(s) : Append(s, n)[i] = s[i]
  OBVIOUS
<1> SUFFICES ASSUME NEW i \in 1..(Len(s) + 1), NEW j \in 1..(Len(s) + 1), i < j
             PROVE  Append(s, n)[i] < Append(s, n)[j]
  BY <1>1 DEF Ascending
<1>2. i \in 1..Len(s)
  BY <1>1
<1>3. CASE j = Len(s) + 1
  <2>1. s[i] \in Items(s)
    BY <1>1, <1>2 DEF Items
  <2> QED BY <1>1, <1>2, <1>3, <2>1
<1>4. CASE j # Len(s) + 1
  <2>1. j \in 1..Len(s)
    BY <1>1, <1>4
  <2> QED BY <1>1, <1>2, <2>1 DEF Ascending
<1> QED BY <1>3, <1>4

\* Ordered, said of the queue and the batch separately.
Parts(b, q, t, A) ==
  /\ Ascending(b) /\ Ascending(q) /\ After(q, b, {})
  /\ After(b, t, A) /\ After(q, t, A)

\* Ordered is Parts of the queue, the batch and the table.
LEMMA PartsOf ==
  ASSUME NEW b \in Seq(Nat), NEW q \in Seq(Nat), NEW t \in Seq(Nat), NEW A
  PROVE  Ascending(b \o q) /\ After(b \o q, t, A) <=> Parts(b, q, t, A)
<1>1. Items(b \o q) = Items(b) \cup Items(q)
  BY ItemsConcat
<1>2. After(b \o q, t, A) <=> After(b, t, A) /\ After(q, t, A)
  BY <1>1 DEF After
<1> QED BY <1>2, AscendingConcat DEF Parts

\* Every step keeps the order: outcomes enter at the end, leave from the front,
\* and a failed batch returns to where it was taken.
LEMMA OrderedNext == TypeOK /\ TypeOK' /\ Ordered /\ [Next]_vars => Ordered'
<1> SUFFICES ASSUME TypeOK, TypeOK', Ordered, [Next]_vars PROVE Ordered'
  OBVIOUS
<1>n. /\ queue \in Seq(Nat) /\ batch \in Seq(Nat) /\ stored \in Seq(Nat)
      /\ next \in Nat
      /\ \A x \in Items(queue) \cup Items(batch) \cup Items(stored) : x \in Nat /\ x < next
  <2>1. next \in Nat /\ next >= 1
    BY BoundAssumption DEF TypeOK
  <2>2. /\ Items(queue) \subseteq 1..(next - 1) /\ Items(batch) \subseteq 1..(next - 1)
        /\ Items(stored) \subseteq 1..(next - 1)
    BY ItemsIn DEF TypeOK
  <2> QED BY <2>1, <2>2, Naturals
<1>p. (queue \in Seq(Nat) /\ batch \in Seq(Nat) /\ stored \in Seq(Nat))'
  <2>1. next' - 1 \in Nat
    <3>1. next' \in 1..(MaxOutcome + 1)
      BY DEF TypeOK
    <3>2. ASSUME NEW n \in 1..(MaxOutcome + 1) PROVE n - 1 \in Nat
      BY BoundAssumption
    <3> QED BY <3>1, <3>2, Zenon
  <2>2. ASSUME NEW s \in Seq(1..(next' - 1)) PROVE s \in Seq(Nat)
    <3>1. DOMAIN s = 1..Len(s) /\ Len(s) \in Nat /\ \A i \in 1..Len(s) : s[i] \in Nat
      BY <2>1
    <3> QED BY <3>1
  <2> QED BY <2>2 DEF TypeOK
<1>o. Parts(batch, queue, stored, again)
  <2>1. Ascending(batch \o queue) /\ After(batch \o queue, stored, again)
    BY DEF Ordered, Ascending, After, Items
  <2> QED BY <2>1, <1>n, PartsOf
<1>c. ASSUME Parts(batch', queue', stored', again') PROVE Ordered'
  <2>1. Ascending(batch' \o queue') /\ After(batch' \o queue', stored', again')
    BY <1>c, <1>p, PartsOf
  <2>2. /\ \A i, j \in DOMAIN (batch' \o queue') : i < j => (batch' \o queue')[i] < (batch' \o queue')[j]
        /\ \A i \in DOMAIN (batch' \o queue'), k \in DOMAIN stored' :
             stored'[k] \in again' \/ stored'[k] < (batch' \o queue')[i]
    BY <2>1 DEF Ascending, After, Items
  <2> QED BY <2>2 DEF Ordered
<1>a. Ascending(<<>>) /\ (\A t, A : After(<<>>, t, A)) /\ (\A q : After(q, <<>>, {}))
  BY ItemsEmpty DEF Ascending, After
<1>1. CASE enqueue
  <2> DEFINE rest == IF Len(queue) >= MaxSize THEN Tail(queue) ELSE queue
  <2>1. /\ batch' = batch /\ stored' = stored /\ again' = again
        /\ queue' = Append(rest, next)
    BY <1>1 DEF enqueue
  <2>2. rest \in Seq(Nat) /\ Ascending(rest) /\ Items(rest) \subseteq Items(queue)
    <3>1. CASE Len(queue) >= MaxSize
      <4>1. queue # <<>> /\ Tail(queue) \in Seq(Nat)
        BY <1>n, <3>1, BoundAssumption
      <4>2. Ascending(Tail(queue)) /\ Items(Tail(queue)) \subseteq Items(queue)
        BY <1>n, <1>o, <4>1, AscendingTail, ItemsTail DEF Parts
      <4> QED BY <3>1, <4>1, <4>2
    <3>2. CASE ~(Len(queue) >= MaxSize)
      BY <1>n, <1>o, <3>2 DEF Parts
    <3> QED BY <3>1, <3>2
  <2> HIDE DEF rest
  <2>3. Items(queue') = Items(rest) \cup {next}
    BY <1>n, <2>1, <2>2, ItemsAppend
  <2>4. Ascending(queue')
    <3>1. \A x \in Items(rest) : x < next
      BY <1>n, <2>2
    <3> QED BY <1>n, <2>1, <2>2, <3>1, AscendingAppend
  <2>5. After(queue', batch, {}) /\ After(queue', stored, again)
    BY <1>n, <1>o, <2>2, <2>3 DEF Parts, After
  <2> QED BY <1>c, <1>o, <2>1, <2>4, <2>5 DEF Parts
<1>f. ASSUME flush PROVE Ordered'
  <2>1. /\ batch = <<>> /\ batch' = queue /\ queue' = <<>>
        /\ stored' = stored /\ again' = again
    BY <1>f DEF flush, histVars
  <2>2. Parts(queue, <<>>, stored, again)
    BY <1>o, <1>a DEF Parts
  <2> QED BY <1>c, <2>1, <2>2
<1>e. ASSUME batch' = <<>>, queue' = queue, again' = again,
             stored' = stored \/ stored' = stored \o batch
      PROVE  Ordered'
  <2>1. Items(stored') \subseteq Items(stored) \cup Items(batch)
    BY <1>e, <1>n, ItemsConcat
  <2>2. After(queue, stored', again)
    BY <1>o, <2>1 DEF Parts, After
  <2>3. Parts(<<>>, queue, stored', again)
    BY <1>o, <1>a, <2>2 DEF Parts
  <2> QED BY <1>c, <1>e, <2>3
<1>2. CASE TimerFlush
  BY <1>2, <1>f DEF TimerFlush
<1>3. CASE Written
  BY <1>3, <1>e DEF Written, histVars
<1>r. ASSUME Requeue, batch' = <<>>, again \subseteq again',
             \A x \in Items(stored') : x \in Items(stored) \/ x \in again'
      PROVE  Ordered'
  <2>1. queue' = batch \o queue /\ Items(queue') = Items(batch) \cup Items(queue)
    BY <1>r, <1>n, ItemsConcat DEF Requeue
  <2>2. Ascending(queue')
    BY <1>n, <1>o, <2>1, AscendingConcat DEF Parts
  <2>3. After(queue', stored', again')
    <3> SUFFICES ASSUME NEW x \in Items(stored'), NEW y \in Items(queue'), x \notin again'
                 PROVE  x < y
      BY DEF After
    <3>1. x \in Items(stored) /\ x \notin again
      BY <1>r
    <3> QED BY <1>o, <2>1, <3>1 DEF Parts, After
  <2>4. Parts(<<>>, queue', stored', again')
    BY <1>a, <2>2, <2>3 DEF Parts
  <2> QED BY <1>c, <1>r, <2>4
<1>4. CASE FlushRaises
  BY <1>4, <1>r DEF FlushRaises
<1>5. CASE FlushRaisesLate
  <2>1. Items(stored') = Items(stored) \cup Items(batch) /\ again' = again \cup Items(batch)
    BY <1>5, <1>n, ItemsConcat DEF FlushRaisesLate
  <2> QED BY <1>5, <2>1, <1>r DEF FlushRaisesLate
<1>6. CASE Stop
  BY <1>6, <1>e DEF Stop
<1>7. CASE StopFlush
  <2>1. CASE flush
    BY <2>1, <1>f
  <2>2. CASE UNCHANGED <<queue, batch, stored, histVars>>
    BY <2>2 DEF histVars, Ordered
  <2> QED BY <1>7, <2>1, <2>2 DEF StopFlush
<1>8. CASE UNCHANGED vars
  BY <1>8 DEF vars, histVars, Ordered
<1> QED BY <1>1, <1>2, <1>3, <1>4, <1>5, <1>6, <1>7, <1>8 DEF Next

\* Outcomes are written in the order of enqueue and none is written again, but
\* for a batch whose commit was applied and its reply lost (flush's "order
\* preserved").
THEOREM OrderHolds == Spec => []Ordered
<1>1. Init => TypeOK /\ Ordered
  <2>1. Init => Ordered
    BY DEF Init, Ordered
  <2> QED BY <2>1, TypeInit
<1>2. TypeOK /\ Ordered /\ [Next]_vars => TypeOK' /\ Ordered'
  BY TypeNext, OrderedNext
<1> QED BY <1>1, <1>2, PTL DEF Spec

=============================================================================
