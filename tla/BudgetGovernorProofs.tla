------------------------ MODULE BudgetGovernorProofs ------------------------
(***************************************************************************)
(* Proofs about the BrsApi budget governor, for every set of requests and  *)
(* processes, every limit and every length of the day and of the cooldown. *)
(***************************************************************************)
EXTENDS BudgetGovernor, FiniteSetTheorems, TLAPS

-----------------------------------------------------------------------------
(* The inductive invariants. *)

\* The script never lets a counter past the limit; a process seeds its own
\* count from it.
UnderLimit == \A d \in Day : daily[d] <= DailyLimit

Typed == TypeOK /\ UnderLimit

\* No block, in a process, in Redis or on its way there, is longer than one
\* cooldown from now.
Bounded ==
  /\ rblock <= now + Cooldown
  /\ \A p \in Process : until[p] <= now + Cooldown
  /\ \A t \in Task : payload[t] <= now + Cooldown

\* A granted request is past the limiter.
Past == {"record", "http", "persist", "done", "dead"}
GrantedPhase == \A t \in granted : pc[t] \in Past

\* The requests whose slot the counter of day d should count.
Holding == granted \cup {t \in Task : pc[t] \in Reserved}
Held(d) == {t \in Holding : day[t] = d}

\* The counter of a day is below what is held only if a slot was taken from it,
\* and above only if a slot was left in it.
Balanced ==
  \A d \in Day : /\ d \notin eroded => Cardinality(Held(d)) <= daily[d]
                 /\ d \notin leaked => daily[d] <= Cardinality(Held(d))

-----------------------------------------------------------------------------
(* Types. *)

LEMMA TodayIn == ASSUME TypeOK PROVE Today \in Day
<1>1. now \in 0..MaxNow /\ DayLength \in Nat \ {0} /\ MaxNow \in Nat
  BY TimeAssumption DEF TypeOK
<1>2. ASSUME NEW L \in Nat \ {0}, NEW M \in Nat, NEW n \in 0..M
      PROVE  n \div L \in 0..(M \div L)
  BY Z3
<1> QED BY <1>1, <1>2 DEF Today, Day

LEMMA LocalCountIn == ASSUME TypeOK, NEW p \in Process PROVE LocalCount(p) \in 0..DailyLimit
<1>1. lcount[p] \in 0..DailyLimit /\ DailyLimit \in Nat
  BY LimitAssumption DEF TypeOK
<1> QED BY <1>1 DEF LocalCount

\* what a request's step may write
LEMMA TypeLoadBlock == ASSUME Typed, NEW p \in Process, LoadBlock(p) PROVE Typed'
BY DEF LoadBlock, Typed, TypeOK, UnderLimit, redisVars, taskVars, histVars

LEMMA TypeSeed == ASSUME Typed, NEW p \in Process, Seed(p) PROVE Typed'
<1>1. Today \in Day
  BY TodayIn DEF Typed
<1>2. daily[Today] \in Int /\ daily[Today] <= DailyLimit /\ lcount[p] \in 0..DailyLimit /\ DailyLimit \in Nat
  BY <1>1, LimitAssumption DEF Typed, TypeOK, UnderLimit
<1>3. lcount' \in [Process -> 0..DailyLimit]
  BY <1>1, <1>2 DEF Seed, Typed, TypeOK
<1>4. ldate' \in [Process -> Day \cup {-1}]
  BY <1>1 DEF Seed, Typed, TypeOK
<1> QED BY <1>3, <1>4 DEF Seed, Typed, TypeOK, UnderLimit, redisVars, taskVars, histVars

LEMMA TypeInitFails == ASSUME Typed, NEW p \in Process, InitFails(p) PROVE Typed'
<1>1. Today \in Day
  BY TodayIn DEF Typed
<1>2. ldate' \in [Process -> Day \cup {-1}] /\ up' \in [Process -> {"no", "loaded", "yes"}]
  BY <1>1 DEF InitFails, Typed, TypeOK
<1>3. errors' \in 0..MaxErrors
  BY BoundAssumption DEF InitFails, Typed, TypeOK
<1> QED BY <1>2, <1>3 DEF InitFails, Typed, TypeOK, UnderLimit, redisVars, taskVars

LEMMA TypeFetch == ASSUME Typed, NEW t \in Task, Fetch(t) PROVE Typed'
BY DEF Fetch, Goto, PC, Typed, TypeOK, UnderLimit, redisVars, processVars, histVars

LEMMA TypeReserve == ASSUME Typed, NEW t \in Task, ReserveDaily(t) PROVE Typed'
<1>1. Today \in Day
  BY TodayIn DEF Typed
<1>2. daily' \in [Day -> Int] /\ UnderLimit'
  BY <1>1, LimitAssumption DEF ReserveDaily, Fits, Typed, TypeOK, UnderLimit
<1>3. day' \in [Task -> Day] /\ pc' \in [Task -> PC]
  BY <1>1 DEF ReserveDaily, Goto, PC, Typed, TypeOK
<1> QED BY <1>2, <1>3 DEF ReserveDaily, Typed, TypeOK, processVars, histVars

LEMMA TypeCrash == ASSUME Typed, NEW p \in Process, Crash(p) PROVE Typed'
<1>1. pc' \in [Task -> PC]
  BY DEF Crash, PC, Typed, TypeOK
<1>2. leaked' \subseteq Day
  BY DEF Crash, Typed, TypeOK
<1>3. /\ lcount' \in [Process -> 0..DailyLimit] /\ ldate' \in [Process -> Day \cup {-1}]
      /\ until' \in [Process -> Nat] /\ seen302' \in [Process -> BOOLEAN]
      /\ up' \in [Process -> {"no", "loaded", "yes"}]
  BY LimitAssumption DEF Crash, Typed, TypeOK
<1> QED BY <1>1, <1>2, <1>3 DEF Crash, Typed, TypeOK, UnderLimit, redisVars

LEMMA TypeGates ==
  ASSUME Typed, NEW t \in Task, NEW used, PrecheckWith(t, used) \/ GateWith(t, used),
         errors' \in 0..MaxErrors
  PROVE  Typed'
<1>1. pc' \in [Task -> PC]
  BY DEF PrecheckWith, GateWith, Goto, PC, Typed, TypeOK
<1>2. UNCHANGED <<redisVars, processVars, day, payload, now, granted, eroded, leaked>>
  BY DEF PrecheckWith, GateWith
<1> QED BY <1>1, <1>2 DEF Typed, TypeOK, UnderLimit, redisVars, processVars

LEMMA TypeLimiter == ASSUME Typed, NEW t \in Task, Limiter(t) PROVE Typed'
<1>1. Today \in Day /\ ProcOf[t] \in Process
  BY TodayIn, ProcAssumption DEF Typed
<1>2. LocalCount(ProcOf[t]) \in 0..DailyLimit /\ DailyLimit \in Nat
  BY <1>1, LocalCountIn, LimitAssumption DEF Typed
<1>3. lcount' \in [Process -> 0..DailyLimit]
  <2>1. CASE LocalRoom(ProcOf[t])
    <3>1. LocalCount(ProcOf[t]) + 1 \in 0..DailyLimit
      BY <1>2, <2>1 DEF LocalRoom
    <3>2. lcount' = [lcount EXCEPT ![ProcOf[t]] = LocalCount(ProcOf[t]) + 1]
      BY <2>1 DEF Limiter
    <3> QED BY <3>1, <3>2 DEF Typed, TypeOK
  <2>2. CASE ~ LocalRoom(ProcOf[t])
    BY <1>2, <2>2 DEF Limiter, Typed, TypeOK
  <2> QED BY <2>1, <2>2
<1>4. ldate' \in [Process -> Day \cup {-1}]
  BY <1>1 DEF Limiter, Typed, TypeOK
<1>5. pc' \in [Task -> PC] /\ granted' \subseteq Task
  BY DEF Limiter, Goto, PC, Typed, TypeOK
<1> QED BY <1>3, <1>4, <1>5 DEF Limiter, Typed, TypeOK, UnderLimit, redisVars

\* DECRBY and DEL lower the counter
LEMMA TypeDecr ==
  ASSUME Typed, NEW t \in Task, Decr(t) \/ Del(t)
  PROVE  daily' \in [Day -> Int] /\ UnderLimit' /\ eroded' \subseteq Day /\ leaked' \subseteq Day
<1>1. Today \in Day /\ day[t] \in Day
  BY TodayIn DEF Typed, TypeOK
<1>2. CASE Decr(t)
  BY <1>1, <1>2, LimitAssumption DEF Decr, Typed, TypeOK, UnderLimit
<1>3. CASE Del(t)
  BY <1>1, <1>3, LimitAssumption DEF Del, Typed, TypeOK, UnderLimit
<1> QED BY <1>2, <1>3

LEMMA TypeRelease == ASSUME Typed, NEW t \in Task, ReleaseDaily(t) PROVE Typed'
<1>1. daily' \in [Day -> Int] /\ UnderLimit' /\ eroded' \subseteq Day /\ leaked' \subseteq Day
  BY TypeDecr DEF ReleaseDaily
<1>2. Today \in Day
  BY TodayIn DEF Typed
<1>3. pc' \in [Task -> PC] /\ day' \in [Task -> Day]
  BY <1>2 DEF ReleaseDaily, Goto, PC, Typed, TypeOK
<1> QED BY <1>1, <1>3 DEF ReleaseDaily, Typed, TypeOK, processVars

LEMMA TypeDelete == ASSUME Typed, NEW t \in Task, DeleteKey(t) PROVE Typed'
<1>1. daily' \in [Day -> Int] /\ UnderLimit' /\ eroded' \subseteq Day /\ leaked' \subseteq Day
  BY TypeDecr DEF DeleteKey
<1>2. pc' \in [Task -> PC]
  BY DEF DeleteKey, Goto, PC, Typed, TypeOK
<1> QED BY <1>1, <1>2 DEF DeleteKey, Typed, TypeOK, processVars

LEMMA TypeReleaseLost ==
  ASSUME Typed, NEW t \in Task, ReleaseLost(t), errors' \in 0..MaxErrors
  PROVE  Typed'
<1>1. daily' \in [Day -> Int] /\ UnderLimit' /\ eroded' \subseteq Day /\ leaked' \subseteq Day
  <2>1. CASE Decr(t) \/ Del(t)
    BY <2>1, TypeDecr
  <2>2. CASE UNCHANGED <<daily, eroded>> /\ (Leak(day[t]) \/ leaked' = leaked)
    <3>1. day[t] \in Day /\ daily \in [Day -> Int] /\ eroded \subseteq Day /\ leaked \subseteq Day
      BY DEF Typed, TypeOK
    <3> QED BY <2>2, <3>1 DEF Leak, Typed, UnderLimit
  <2> QED BY <2>1, <2>2 DEF ReleaseLost
<1>2. pc' \in [Task -> PC]
  BY DEF ReleaseLost, Goto, PC, Typed, TypeOK
<1>3. UNCHANGED <<window, rblock, processVars, day, payload, now, granted>>
  BY DEF ReleaseLost
<1> QED BY <1>1, <1>2, <1>3 DEF Typed, TypeOK, processVars

LEMMA TypeAnswer ==
  ASSUME Typed, NEW t \in Task, AnswerOk(t) \/ Answer302(t) \/ AnswerError(t)
  PROVE  Typed'
<1>1. ProcOf[t] \in Process /\ now + Cooldown \in Nat
  BY ProcAssumption, TimeAssumption DEF Typed, TypeOK
<1>2. CASE AnswerOk(t)
  <2>0. /\ until' = until \/ until' = [until EXCEPT ![ProcOf[t]] = 0]
        /\ seen302' = seen302 \/ seen302' = [seen302 EXCEPT ![ProcOf[t]] = FALSE]
        /\ payload' = payload \/ payload' = [payload EXCEPT ![t] = 0]
    BY <1>2 DEF AnswerOk
  <2>1. until' \in [Process -> Nat] /\ seen302' \in [Process -> BOOLEAN] /\ payload' \in [Task -> Nat]
    <3>1. seen302' \in [Process -> BOOLEAN]
      BY <1>1, <2>0 DEF Typed, TypeOK
    <3> QED BY <1>1, <2>0, <3>1 DEF Typed, TypeOK
  <2>2. pc' \in [Task -> PC]
    BY <1>2 DEF AnswerOk, Goto, PC, Typed, TypeOK
  <2> QED BY <1>2, <2>1, <2>2 DEF AnswerOk, Typed, TypeOK, UnderLimit, redisVars, histVars
<1>3. CASE Answer302(t)
  BY <1>1, <1>3 DEF Answer302, Goto, PC, Typed, TypeOK, UnderLimit, redisVars, histVars
<1>4. CASE AnswerError(t)
  BY <1>4 DEF AnswerError, Goto, PC, Typed, TypeOK, UnderLimit, redisVars, processVars, histVars
<1> QED BY <1>2, <1>3, <1>4

\* the steps that touch the window or the block in Redis
LEMMA TypeRedis ==
  ASSUME Typed, NEW t \in Task, errors' \in 0..MaxErrors,
         Enforce5min(t) \/ RecordUsed(t) \/ PersistBlock(t) \/ WindowFails(t) \/ PersistFails(t)
         \/ CancelReserved(t) \/ CancelRecord(t) \/ CancelOther(t)
  PROVE  Typed'
<1>0. window \in Nat /\ rblock \in Nat /\ payload[t] \in Nat
  BY DEF Typed, TypeOK
<1>1. UNCHANGED <<daily, processVars, day, payload, now, granted, eroded, leaked>>
  BY DEF Enforce5min, RecordUsed, PersistBlock, WindowFails, PersistFails, CancelReserved,
         CancelRecord, CancelOther, histVars, redisVars
<1>2. \E label \in PC : Goto(t, label)
  BY DEF Enforce5min, RecordUsed, PersistBlock, WindowFails, PersistFails, CancelReserved,
         CancelRecord, CancelOther, PC
<1>3. window' \in {window, window + 1} /\ rblock' \in {rblock, payload[t]}
  BY DEF Enforce5min, RecordUsed, PersistBlock, WindowFails, PersistFails, CancelReserved,
         CancelRecord, CancelOther, redisVars
<1>4. pc' \in [Task -> PC]
  BY <1>2 DEF Goto, Typed, TypeOK
<1>5. window' \in Nat /\ rblock' \in Nat
  BY <1>0, <1>3
<1> QED BY <1>1, <1>4, <1>5 DEF Typed, TypeOK, UnderLimit, processVars

LEMMA TypeReserveFault ==
  ASSUME Typed, NEW t \in Task, CancelReserve(t) \/ ReserveFails(t), errors' \in 0..MaxErrors
  PROVE  Typed'
<1>1. Today \in Day
  BY TodayIn DEF Typed
<1>2. daily' = daily \/ (Fits(daily[Today]) /\ daily' = [daily EXCEPT ![Today] = daily[Today] + 1])
  BY DEF CancelReserve, ReserveFails
<1>3. daily' \in [Day -> Int] /\ UnderLimit'
  <2>1. CASE daily' = daily
    BY <2>1 DEF Typed, TypeOK, UnderLimit
  <2>2. CASE Fits(daily[Today]) /\ daily' = [daily EXCEPT ![Today] = daily[Today] + 1]
    BY <1>1, <2>2, LimitAssumption DEF Fits, Typed, TypeOK, UnderLimit
  <2> QED BY <1>2, <2>1, <2>2
<1>4. pc' \in [Task -> PC] /\ day' \in [Task -> Day]
  BY <1>1 DEF CancelReserve, ReserveFails, Goto, PC, Typed, TypeOK
<1>5. leaked' \subseteq Day /\ eroded' \subseteq Day
  BY <1>1 DEF CancelReserve, ReserveFails, Leak, Erode, Typed, TypeOK
<1>6. UNCHANGED <<window, rblock, processVars, payload, now, granted>>
  BY DEF CancelReserve, ReserveFails
<1> QED BY <1>3, <1>4, <1>5, <1>6 DEF Typed, TypeOK, processVars

LEMMA TypeTime == ASSUME Typed, Tick \/ BlockExpires PROVE Typed'
<1>1. CASE Tick
  <2>1. now' \in 0..MaxNow /\ window' \in Nat
    BY <1>1, TimeAssumption DEF Tick, Typed, TypeOK
  <2> QED BY <1>1, <2>1 DEF Tick, Typed, TypeOK, UnderLimit, processVars, taskVars, histVars
<1>2. CASE BlockExpires
  BY <1>2 DEF BlockExpires, Typed, TypeOK, UnderLimit, processVars, taskVars, histVars
<1> QED BY <1>1, <1>2

LEMMA TypeInit == Init => Typed
<1> SUFFICES ASSUME Init PROVE Typed
  OBVIOUS
<1>1. 0 \in Day
  <2>1. ASSUME NEW L \in Nat \ {0}, NEW M \in Nat PROVE 0 \in 0..(M \div L)
    BY Z3
  <2> QED BY <2>1, TimeAssumption DEF Day
<1> QED BY <1>1, LimitAssumption, TimeAssumption, BoundAssumption
        DEF Init, Typed, TypeOK, UnderLimit, PC

LEMMA TypeNext == Typed /\ [Next]_vars => Typed'
<1> SUFFICES ASSUME Typed, [Next]_vars PROVE Typed'
  OBVIOUS
<1>1. CASE UNCHANGED vars
  BY <1>1 DEF vars, redisVars, processVars, taskVars, histVars, Typed, TypeOK, UnderLimit
<1>2. ASSUME NEW p \in Process, LoadBlock(p) \/ Seed(p) \/ InitFails(p) \/ Crash(p) PROVE Typed'
  BY <1>2, TypeLoadBlock, TypeSeed, TypeInitFails, TypeCrash
<1>3. errors \in 0..MaxErrors
  BY DEF Typed, TypeOK
<1>4. ASSUME NEW t \in Task, TaskStep(t) PROVE Typed'
  <2>1. errors' = errors
    BY <1>4 DEF TaskStep, Fetch, Precheck, Gate, ReserveDaily, Enforce5min, Limiter, RecordUsed,
                ReleaseDaily, DeleteKey, AnswerOk, Answer302, AnswerError, PersistBlock, histVars
  <2>2. CASE Precheck(t) \/ Gate(t)
    BY <1>3, <2>1, <2>2, TypeGates DEF Precheck, Gate
  <2>3. CASE Enforce5min(t) \/ RecordUsed(t) \/ PersistBlock(t)
    BY <1>3, <2>1, <2>3, TypeRedis
  <2> QED BY <1>4, <2>2, <2>3, TypeFetch, TypeReserve, TypeLimiter, TypeRelease, TypeDelete,
             TypeAnswer DEF TaskStep
<1>5. ASSUME NEW t \in Task, Cancel(t) PROVE Typed'
  <2>1. errors' = errors
    BY <1>5 DEF Cancel, CancelReserved, CancelReserve, CancelRecord, CancelOther, histVars
  <2> QED BY <1>3, <1>5, <2>1, TypeRedis, TypeReserveFault, TypeReleaseLost DEF Cancel
<1>6. ASSUME NEW t \in Task, RedisError(t) PROVE Typed'
  <2>1. errors' \in 0..MaxErrors
    BY <1>3, <1>6, BoundAssumption DEF RedisError
  <2> QED BY <1>6, <2>1, TypeGates, TypeReserveFault, TypeRedis, TypeReleaseLost
          DEF RedisError, ReadFails
<1> QED BY <1>1, <1>2, <1>4, <1>5, <1>6, TypeTime DEF Next

LEMMA TypedAlways == Spec => []Typed
<1>1. Init => Typed
  BY TypeInit
<1>2. Typed /\ [Next]_vars => Typed'
  BY TypeNext
<1> QED BY <1>1, <1>2, PTL DEF Spec

\* TypeOK holds in every state: in particular the process's own count stays
\* within the daily limit, because no shared counter it is seeded from passes it.
THEOREM TypeCorrect == Spec => []TypeOK
<1>1. Typed => TypeOK
  BY DEF Typed
<1> QED BY <1>1, TypedAlways, PTL

-----------------------------------------------------------------------------
(* The cooldown. *)

\* The two answers that write a process's block, and its restart.
LEMMA UntilStep ==
  ASSUME Typed, [Next]_vars
  PROVE  \/ until' = until
         \/ \E p \in Process : LoadBlock(p) \/ Crash(p)
         \/ \E t \in Task : AnswerOk(t) \/ Answer302(t)
<1> USE DEF processVars
<1>1. CASE UNCHANGED vars
  BY <1>1 DEF vars
<1>2. ASSUME NEW p \in Process, Seed(p) \/ InitFails(p) PROVE until' = until
  BY <1>2 DEF Seed, InitFails
<1>3. ASSUME NEW t \in Task, TaskStep(t) PROVE until' = until \/ AnswerOk(t) \/ Answer302(t)
  BY <1>3 DEF TaskStep, Fetch, Precheck, PrecheckWith, Gate, GateWith, ReserveDaily, Enforce5min,
              Limiter, RecordUsed, ReleaseDaily, DeleteKey, AnswerError, PersistBlock
<1>4. ASSUME NEW t \in Task, Cancel(t) PROVE until' = until
  BY <1>4 DEF Cancel, CancelReserved, CancelReserve, CancelRecord, CancelOther, ReleaseLost
<1>5. ASSUME NEW t \in Task, RedisError(t) PROVE until' = until
  BY <1>5 DEF RedisError, ReadFails, PrecheckWith, GateWith, ReserveFails, WindowFails, ReleaseLost,
              PersistFails
<1>6. CASE Tick \/ BlockExpires
  BY <1>6 DEF Tick, BlockExpires
<1> QED BY <1>1, <1>2, <1>3, <1>4, <1>5, <1>6 DEF Next

\* payload and the block in Redis: what the answers wrote
LEMMA BlockStep ==
  ASSUME Typed, [Next]_vars
  PROVE  /\ \/ payload' = payload
            \/ \E t \in Task : AnswerOk(t) \/ Answer302(t)
         /\ rblock' = rblock \/ rblock' = 0 \/ \E t \in Task : rblock' = payload[t]
         /\ now' = now \/ now' = now + 1
<1> USE DEF redisVars, taskVars
<1>1. CASE UNCHANGED vars
  BY <1>1 DEF vars
<1>2. ASSUME NEW p \in Process, LoadBlock(p) \/ Seed(p) \/ InitFails(p) \/ Crash(p)
      PROVE  payload' = payload /\ rblock' = rblock /\ now' = now
  BY <1>2 DEF LoadBlock, Seed, InitFails, Crash
<1>3. ASSUME NEW t \in Task, TaskStep(t)
      PROVE  /\ payload' = payload \/ AnswerOk(t) \/ Answer302(t)
             /\ rblock' = rblock \/ rblock' = payload[t]
             /\ now' = now
  BY <1>3 DEF TaskStep, Fetch, Precheck, PrecheckWith, Gate, GateWith, ReserveDaily, Enforce5min,
              Limiter, RecordUsed, ReleaseDaily, DeleteKey, AnswerOk, Answer302, AnswerError, PersistBlock
<1>4. ASSUME NEW t \in Task, Cancel(t)
      PROVE  payload' = payload /\ (rblock' = rblock \/ rblock' = payload[t]) /\ now' = now
  BY <1>4 DEF Cancel, CancelReserved, CancelReserve, CancelRecord, CancelOther, ReleaseLost
<1>5. ASSUME NEW t \in Task, RedisError(t)
      PROVE  payload' = payload /\ (rblock' = rblock \/ rblock' = payload[t]) /\ now' = now
  BY <1>5 DEF RedisError, ReadFails, PrecheckWith, GateWith, ReserveFails, WindowFails, ReleaseLost,
              PersistFails
<1>6. CASE Tick \/ BlockExpires
  BY <1>6 DEF Tick, BlockExpires
<1> QED BY <1>1, <1>2, <1>3, <1>4, <1>5, <1>6 DEF Next

\* What a step does to the block of one process: it stays, it is what Redis
\* had, it is cleared when it is over, or a cooldown from now begins.
LEMMA UntilEffect ==
  ASSUME Typed, [Next]_vars, NEW p \in Process
  PROVE  \/ until'[p] = until[p]
         \/ up'[p] # "yes" /\ until'[p] \in {0, rblock}
         \/ now >= until[p] /\ until'[p] = 0
         \/ until'[p] = now + Cooldown
<1>0. until \in [Process -> Nat] /\ up \in [Process -> {"no", "loaded", "yes"}]
      /\ \A t \in Task : ProcOf[t] \in Process
  BY ProcAssumption DEF Typed, TypeOK
<1>1. CASE until' = until
  BY <1>1
<1>2. ASSUME NEW q \in Process, LoadBlock(q)
      PROVE  until'[p] = until[p] \/ (up'[p] # "yes" /\ until'[p] \in {0, rblock})
  BY <1>0, <1>2 DEF LoadBlock
<1>3. ASSUME NEW q \in Process, Crash(q)
      PROVE  until'[p] = until[p] \/ (up'[p] # "yes" /\ until'[p] \in {0, rblock})
  BY <1>0, <1>3 DEF Crash
<1>4. ASSUME NEW t \in Task, AnswerOk(t)
      PROVE  until'[p] = until[p] \/ (now >= until[p] /\ until'[p] = 0)
  BY <1>0, <1>4 DEF AnswerOk
<1>5. ASSUME NEW t \in Task, Answer302(t)
      PROVE  until'[p] = until[p] \/ until'[p] = now + Cooldown
  BY <1>0, <1>5 DEF Answer302
<1> QED BY <1>1, <1>2, <1>3, <1>4, <1>5, UntilStep

LEMMA BoundedInit == Init => Bounded
BY TimeAssumption DEF Init, Bounded

LEMMA BoundedNext == Typed /\ Bounded /\ [Next]_vars => Bounded'
<1> SUFFICES ASSUME Typed, Bounded, [Next]_vars PROVE Bounded'
  OBVIOUS
<1>0. /\ now \in Nat /\ Cooldown \in Nat /\ rblock \in Nat /\ until \in [Process -> Nat]
      /\ payload \in [Task -> Nat]
  BY TimeAssumption DEF Typed, TypeOK
<1>1. /\ \/ payload' = payload
         \/ \E t \in Task : AnswerOk(t) \/ Answer302(t)
      /\ rblock' = rblock \/ rblock' = 0 \/ \E t \in Task : rblock' = payload[t]
      /\ now' = now \/ now' = now + 1
  BY BlockStep
<1>2. rblock' <= now' + Cooldown
  BY <1>0, <1>1 DEF Bounded
<1>3. ASSUME NEW p \in Process PROVE until'[p] <= now' + Cooldown
  <2>1. until[p] \in Nat /\ until[p] <= now + Cooldown
    BY <1>0 DEF Bounded
  <2>2. \/ until'[p] = until[p] \/ until'[p] = 0 \/ until'[p] = rblock \/ until'[p] = now + Cooldown
    BY UntilEffect
  <2> QED BY <1>0, <1>1, <2>1, <2>2 DEF Bounded
<1>4. ASSUME NEW t \in Task PROVE payload'[t] <= now' + Cooldown
  <2>1. payload[t] \in Nat /\ payload[t] <= now + Cooldown
    BY <1>0 DEF Bounded
  <2>2. ASSUME NEW u \in Task, AnswerOk(u) \/ Answer302(u)
        PROVE  payload'[t] = payload[t] \/ payload'[t] = 0 \/ payload'[t] = now + Cooldown
    BY <1>0, <2>2 DEF AnswerOk, Answer302
  <2>3. payload'[t] = payload[t] \/ payload'[t] = 0 \/ payload'[t] = now + Cooldown
    BY <1>1, <2>2
  <2> QED BY <1>0, <1>1, <2>1, <2>3
<1> QED BY <1>2, <1>3, <1>4 DEF Bounded

LEMMA BoundedAlways == Spec => []Bounded
<1>1. Typed /\ Bounded /\ [Next]_vars => Bounded'
  BY BoundedNext
<1> QED BY <1>1, BoundedInit, TypedAlways, PTL DEF Spec

\* No step of a process that stays up shortens a running cooldown: a late 200
\* leaves it alone, and a second 302 starts one that ends no earlier.
THEOREM CooldownNeverShrinks == Spec => CooldownHolds
<1> DEFINE Holds == \A p \in Process : now < until[p] /\ up'[p] = "yes" => until'[p] >= until[p]
<1>1. Typed /\ Bounded /\ [Next]_vars => [Holds]_vars
  <2> SUFFICES ASSUME Typed, Bounded, [Next]_vars, NEW p \in Process,
                      now < until[p], up'[p] = "yes"
               PROVE  until'[p] >= until[p]
    OBVIOUS
  <2>1. until[p] \in Nat /\ now \in Nat /\ until[p] <= now + Cooldown
    BY DEF Typed, TypeOK, Bounded
  <2> QED BY <2>1, UntilEffect
<1> QED BY <1>1, TypedAlways, BoundedAlways, PTL DEF Spec, CooldownHolds

-----------------------------------------------------------------------------
(* The kinds of steps, as the counters of the days see them. *)

Same == UNCHANGED <<daily, day, eroded, leaked>> /\ Holding' = Holding

\* A request reserves a slot, which may not have been counted.
Takes(t) ==
  /\ t \notin Holding /\ Holding' = Holding \cup {t}
  /\ day' = [day EXCEPT ![t] = Today]
  /\ leaked' = leaked
  /\ \/ daily' = [daily EXCEPT ![Today] = daily[Today] + 1] /\ eroded' = eroded
     \/ daily' = daily /\ eroded' = eroded \cup {Today}

\* A request gives its slot up, on today's counter or on none.
Gives(t) ==
  /\ t \in Holding /\ Holding' = Holding \ {t}
  /\ \A u \in Holding' : day'[u] = day[u]
  /\ Decr(t) \/ (UNCHANGED <<daily, eroded>> /\ Leak(day[t]))

\* A slot is counted for nobody.
Orphans ==
  /\ Holding' = Holding /\ day' = day /\ eroded' = eroded
  /\ daily' = [daily EXCEPT ![Today] = daily[Today] + 1]
  /\ Leak(Today)

Deletes(t) == Holding' = Holding /\ day' = day /\ Del(t)

\* Requests die with their slots.
Dies ==
  /\ UNCHANGED <<daily, day, eroded>>
  /\ Holding' \subseteq Holding /\ leaked \subseteq leaked'
  /\ \A t \in Holding \ Holding' : day[t] \in leaked'

Kind == Same \/ Orphans \/ Dies \/ \E t \in Task : Takes(t) \/ Gives(t) \/ Deletes(t)

\* What one request's move from one phase to another means for the slots.
LEMMA PhaseStep ==
  ASSUME Typed, GrantedPhase, NEW t \in Task, NEW label, Goto(t, label), granted' = granted,
         pc[t] \in Past => label \in Past
  PROVE  /\ GrantedPhase'
         /\ (label \in Reserved <=> pc[t] \in Reserved) => Holding' = Holding
         /\ pc[t] = "reserve" /\ label \in Reserved =>
              t \notin Holding /\ Holding' = Holding \cup {t}
         /\ pc[t] \in Reserved /\ label \notin Reserved =>
              t \in Holding /\ Holding' = Holding \ {t}
<1>1. pc \in [Task -> PC] /\ granted \subseteq Task
  BY DEF Typed, TypeOK
<1>2. pc'[t] = label /\ \A u \in Task \ {t} : pc'[u] = pc[u]
  BY <1>1 DEF Goto
<1>3. GrantedPhase'
  BY <1>1, <1>2 DEF GrantedPhase
<1>4. ASSUME label \in Reserved <=> pc[t] \in Reserved PROVE Holding' = Holding
  BY <1>2, <1>4 DEF Holding
<1>5. t \in granted => pc[t] \in Past
  BY DEF GrantedPhase
<1>6. ASSUME pc[t] = "reserve", label \in Reserved
      PROVE  t \notin Holding /\ Holding' = Holding \cup {t}
  <2>1. t \notin granted /\ pc[t] \notin Reserved
    BY <1>5, <1>6 DEF Past, Reserved
  <2> QED BY <1>2, <1>6, <2>1 DEF Holding
<1>7. ASSUME pc[t] \in Reserved, label \notin Reserved
      PROVE  t \in Holding /\ Holding' = Holding \ {t}
  <2>1. t \notin granted
    BY <1>5, <1>7 DEF Past, Reserved
  <2> QED BY <1>2, <1>7, <2>1 DEF Holding
<1> QED BY <1>3, <1>4, <1>6, <1>7

\* A step from a phase to another that neither takes nor gives a slot.
LEMMA QuietStep ==
  ASSUME Typed, GrantedPhase, NEW t \in Task, NEW label, Goto(t, label),
         UNCHANGED <<daily, day, eroded, leaked, granted>>,
         pc[t] \in Past => label \in Past, label \in Reserved <=> pc[t] \in Reserved
  PROVE  Kind /\ GrantedPhase'
BY PhaseStep DEF Kind, Same

LEMMA KindQuiet ==
  ASSUME Typed, GrantedPhase, NEW t \in Task,
         \/ Fetch(t) \/ Enforce5min(t) \/ RecordUsed(t) \/ AnswerOk(t) \/ Answer302(t)
         \/ AnswerError(t) \/ PersistBlock(t) \/ CancelReserved(t) \/ CancelRecord(t)
         \/ CancelOther(t) \/ WindowFails(t) \/ PersistFails(t)
         \/ \E used : PrecheckWith(t, used) \/ GateWith(t, used)
  PROVE  Kind /\ GrantedPhase'
<1>1. UNCHANGED <<daily, day, eroded, leaked, granted>>
  BY DEF Fetch, Enforce5min, RecordUsed, AnswerOk, Answer302, AnswerError, PersistBlock,
         CancelReserved, CancelRecord, CancelOther, WindowFails, PersistFails,
         PrecheckWith, GateWith, redisVars, histVars
<1>2. \E label : /\ Goto(t, label)
                 /\ pc[t] \in Past => label \in Past
                 /\ label \in Reserved <=> pc[t] \in Reserved
  <2>1. CASE Fetch(t) \/ \E used : PrecheckWith(t, used) \/ GateWith(t, used)
    BY <2>1 DEF Fetch, PrecheckWith, GateWith, Past, Reserved
  <2>2. CASE Enforce5min(t) \/ RecordUsed(t) \/ CancelReserved(t) \/ CancelRecord(t)
             \/ WindowFails(t)
    BY <2>2 DEF Enforce5min, RecordUsed, CancelReserved, CancelRecord, WindowFails, Past, Reserved
  <2>3. CASE AnswerOk(t) \/ Answer302(t) \/ AnswerError(t)
    BY <2>3 DEF AnswerOk, Answer302, AnswerError, Past, Reserved
  <2>4. CASE PersistBlock(t) \/ PersistFails(t) \/ CancelOther(t)
    BY <2>4 DEF PersistBlock, PersistFails, CancelOther, Past, Reserved
  <2> QED BY <2>1, <2>2, <2>3, <2>4
<1> QED BY <1>1, <1>2, QuietStep

LEMMA KindReserve ==
  ASSUME Typed, GrantedPhase, NEW t \in Task, ReserveDaily(t) \/ ReserveFails(t) \/ CancelReserve(t)
  PROVE  Kind /\ GrantedPhase'
<1>1. pc[t] = "reserve" /\ granted' = granted
  BY DEF ReserveDaily, ReserveFails, CancelReserve, histVars
<1>2. "window" \in Reserved /\ "rejected" \notin Reserved /\ "reserve" \notin Reserved
      /\ "reserve" \notin Past
  BY DEF Reserved, Past
<1>3. CASE Goto(t, "window") /\ (ReserveDaily(t) \/ ReserveFails(t))
  <2>1. GrantedPhase' /\ t \notin Holding /\ Holding' = Holding \cup {t}
    BY <1>1, <1>2, <1>3, PhaseStep
  <2>2. /\ day' = [day EXCEPT ![t] = Today] /\ leaked' = leaked
        /\ \/ daily' = [daily EXCEPT ![Today] = daily[Today] + 1] /\ eroded' = eroded
           \/ daily' = daily /\ eroded' = eroded \cup {Today}
    <3>1. CASE ReserveFails(t)
      BY <3>1 DEF ReserveFails, Erode
    <3>2. CASE ReserveDaily(t)
      <4>1. Fits(daily[Today])
        <5>1. pc'[t] = "window"
          BY <1>3 DEF Goto, Typed, TypeOK
        <5> QED BY <3>2, <5>1 DEF ReserveDaily, Goto, Typed, TypeOK
      <4> QED BY <3>2, <4>1 DEF ReserveDaily, histVars
    <3> QED BY <1>3, <3>1, <3>2
  <2>3. Takes(t)
    BY <2>1, <2>2 DEF Takes
  <2> QED BY <2>1, <2>3 DEF Kind
<1>4. CASE Goto(t, "rejected") /\ UNCHANGED <<daily, day, eroded, leaked>>
  BY <1>1, <1>2, <1>4, QuietStep
<1>5. CASE /\ Goto(t, "rejected") /\ UNCHANGED <<day, eroded>>
           /\ daily' = [daily EXCEPT ![Today] = daily[Today] + 1] /\ Leak(Today)
  <2>1. GrantedPhase' /\ Holding' = Holding
    BY <1>1, <1>2, <1>5, PhaseStep
  <2> QED BY <1>5, <2>1 DEF Kind, Orphans
<1>6. CASE ReserveDaily(t)
  BY <1>3, <1>4, <1>6 DEF ReserveDaily, histVars
<1>7. CASE ReserveFails(t)
  BY <1>3, <1>7 DEF ReserveFails
<1>8. CASE CancelReserve(t)
  BY <1>4, <1>5, <1>8 DEF CancelReserve
<1> QED BY <1>6, <1>7, <1>8

LEMMA KindLimiter ==
  ASSUME Typed, GrantedPhase, NEW t \in Task, Limiter(t)
  PROVE  Kind /\ GrantedPhase'
<1>1. pc[t] = "limiter" /\ UNCHANGED <<daily, day, eroded, leaked>>
  BY DEF Limiter, redisVars
<1>2. CASE LocalRoom(ProcOf[t])
  <2>1. granted' = granted \cup {t} /\ Goto(t, "record")
    BY <1>2 DEF Limiter
  <2>2. pc'[t] = "record" /\ \A u \in Task \ {t} : pc'[u] = pc[u]
    BY <2>1 DEF Goto, Typed, TypeOK
  <2>3. GrantedPhase'
    <3>1. granted \subseteq Task
      BY DEF Typed, TypeOK
    <3> QED BY <2>1, <2>2, <3>1 DEF GrantedPhase, Past
  <2>4. Holding' = Holding
    BY <1>1, <2>1, <2>2 DEF Holding, Reserved
  <2> QED BY <1>1, <2>3, <2>4 DEF Kind, Same
<1>3. CASE ~ LocalRoom(ProcOf[t])
  <2>1. granted' = granted /\ Goto(t, "release")
    BY <1>3 DEF Limiter
  <2> QED BY <1>1, <2>1, QuietStep DEF Past, Reserved
<1> QED BY <1>2, <1>3

\* The request is past its reservation when it deletes the key.
LEMMA KindRelease ==
  ASSUME Typed, GrantedPhase, NEW t \in Task, ReleaseDaily(t) \/ DeleteKey(t) \/ ReleaseLost(t)
  PROVE  Kind /\ GrantedPhase'
<1>0. granted' = granted
  BY DEF ReleaseDaily, DeleteKey, ReleaseLost
<1>1. CASE pc[t] = "release"
  <2>1. \E label \in {"delete", "rejected"} : Goto(t, label)
    BY <1>1 DEF ReleaseDaily, DeleteKey, ReleaseLost
  <2>2. GrantedPhase' /\ t \in Holding /\ Holding' = Holding \ {t}
    BY <1>0, <1>1, <2>1, PhaseStep DEF Past, Reserved
  <2>3. \A u \in Holding' : day'[u] = day[u]
    <3>1. Holding' \subseteq Task \ {t}
      BY <2>2 DEF Holding, Typed, TypeOK
    <3>2. \A u \in Task \ {t} : day'[u] = day[u]
      BY <1>1 DEF ReleaseDaily, DeleteKey, ReleaseLost, Typed, TypeOK
    <3> QED BY <3>1, <3>2
  <2>4. Decr(t) \/ (UNCHANGED <<daily, eroded>> /\ Leak(day[t]))
    BY <1>1 DEF ReleaseDaily, DeleteKey, ReleaseLost
  <2>5. Gives(t)
    BY <2>2, <2>3, <2>4 DEF Gives
  <2> QED BY <2>2, <2>5 DEF Kind
<1>2. CASE pc[t] = "delete"
  <2>1. Goto(t, "rejected") /\ day' = day
    BY <1>2 DEF ReleaseDaily, DeleteKey, ReleaseLost
  <2>2. GrantedPhase' /\ Holding' = Holding
    BY <1>0, <1>2, <2>1, PhaseStep DEF Past, Reserved
  <2>3. Del(t) \/ UNCHANGED <<daily, eroded, leaked>>
    BY <1>2 DEF ReleaseDaily, DeleteKey, ReleaseLost
  <2> QED BY <2>1, <2>2, <2>3 DEF Kind, Same, Deletes
<1> QED BY <1>1, <1>2 DEF ReleaseDaily, DeleteKey, ReleaseLost

LEMMA KindCrash ==
  ASSUME Typed, GrantedPhase, NEW p \in Process, Crash(p)
  PROVE  Kind /\ GrantedPhase'
<1> DEFINE mine == {t \in Task : ProcOf[t] = p /\ pc[t] \notin Final \cup {"new"}}
<1>1. /\ UNCHANGED <<daily, day, eroded, granted>>
      /\ pc' = [t \in Task |-> IF t \in mine THEN "dead" ELSE pc[t]]
      /\ leaked' = leaked \cup {day[t] : t \in {u \in mine : pc[u] \in Reserved}}
  BY DEF Crash, redisVars
<1>2. \A t \in Task : pc'[t] = IF t \in mine THEN "dead" ELSE pc[t]
  BY <1>1
<1>3. GrantedPhase'
  <2>1. granted \subseteq Task
    BY DEF Typed, TypeOK
  <2> QED BY <1>1, <1>2, <2>1 DEF GrantedPhase, Past
<1>4. Holding' \subseteq Holding
  BY <1>1, <1>2 DEF Holding, Reserved
<1>5. ASSUME NEW t \in Holding \ Holding' PROVE day[t] \in leaked'
  <2>1. t \in Task /\ pc[t] \in Reserved /\ pc'[t] \notin Reserved
    BY <1>1 DEF Holding
  <2>2. t \in mine
    BY <1>2, <2>1
  <2> QED BY <1>1, <2>1, <2>2
<1>6. Dies
  BY <1>1, <1>4, <1>5 DEF Dies
<1> QED BY <1>3, <1>6 DEF Kind

\* Every step is of one of these kinds.
LEMMA StepKinds ==
  ASSUME Typed, GrantedPhase, [Next]_vars
  PROVE  Kind /\ GrantedPhase'
<1>1. ASSUME UNCHANGED <<daily, day, eroded, leaked, granted, pc>> PROVE Kind /\ GrantedPhase'
  <2>1. Holding' = Holding /\ GrantedPhase'
    BY <1>1 DEF Holding, GrantedPhase
  <2> QED BY <1>1, <2>1 DEF Kind, Same
<1>2. CASE UNCHANGED vars
  BY <1>1, <1>2 DEF vars, redisVars, taskVars, histVars
<1>3. ASSUME NEW p \in Process, LoadBlock(p) \/ Seed(p) \/ InitFails(p) \/ Crash(p)
      PROVE  Kind /\ GrantedPhase'
  <2>1. CASE LoadBlock(p) \/ Seed(p) \/ InitFails(p)
    BY <1>1, <2>1 DEF LoadBlock, Seed, InitFails, redisVars, taskVars, histVars
  <2> QED BY <1>3, <2>1, KindCrash
<1>4. CASE Tick \/ BlockExpires
  BY <1>1, <1>4 DEF Tick, BlockExpires, taskVars, histVars
<1>5. ASSUME NEW t \in Task, TaskStep(t) PROVE Kind /\ GrantedPhase'
  BY <1>5, KindQuiet, KindReserve, KindLimiter, KindRelease DEF TaskStep, Precheck, Gate
<1>6. ASSUME NEW t \in Task, Cancel(t) PROVE Kind /\ GrantedPhase'
  BY <1>6, KindQuiet, KindReserve, KindRelease DEF Cancel
<1>7. ASSUME NEW t \in Task, RedisError(t) PROVE Kind /\ GrantedPhase'
  BY <1>7, KindQuiet, KindReserve, KindRelease DEF RedisError, ReadFails
<1> QED BY <1>2, <1>3, <1>4, <1>5, <1>6, <1>7 DEF Next

-----------------------------------------------------------------------------
(* The counters and the slots. *)

Counted == IsFiniteSet(Holding) /\ GrantedPhase /\ Balanced

\* The slots of a day are finitely many, so they can be counted.
LEMMA HeldFinite ==
  ASSUME IsFiniteSet(Holding), NEW d
  PROVE  IsFiniteSet(Held(d)) /\ Cardinality(Held(d)) \in Nat
<1>1. Held(d) \in SUBSET Holding
  BY DEF Held
<1>2. IsFiniteSet(Held(d))
  BY <1>1, FS_Subset
<1> QED BY <1>2, FS_CardinalityType

LEMMA CountedTakes ==
  ASSUME Typed, Counted, NEW t \in Task, Takes(t)
  PROVE  IsFiniteSet(Holding)' /\ Balanced'
<1>0. /\ Today \in Day /\ daily \in [Day -> Int] /\ day \in [Task -> Day] /\ Holding \subseteq Task
      /\ IsFiniteSet(Holding)
  BY TodayIn DEF Typed, TypeOK, Counted, Holding
<1>1. IsFiniteSet(Holding)'
  BY <1>0, FS_AddElement DEF Takes
<1>2. ASSUME NEW d \in Day
      PROVE  /\ d \notin eroded' => Cardinality(Held(d))' <= daily'[d]
             /\ d \notin leaked' => daily'[d] <= Cardinality(Held(d))'
  <2>1. IsFiniteSet(Held(d)) /\ Cardinality(Held(d)) \in Nat /\ daily[d] \in Int
    BY <1>0, HeldFinite
  <2>2. /\ d \notin eroded => Cardinality(Held(d)) <= daily[d]
        /\ d \notin leaked => daily[d] <= Cardinality(Held(d))
    BY DEF Counted, Balanced
  <2>3. day'[t] = Today /\ \A u \in Holding : day'[u] = day[u]
    BY <1>0 DEF Takes
  <2>4. CASE d = Today
    <3>1. Held(d)' = Held(d) \cup {t} /\ t \notin Held(d)
      BY <2>3, <2>4 DEF Held, Takes
    <3>2. Cardinality(Held(d))' = Cardinality(Held(d)) + 1
      BY <2>1, <3>1, FS_AddElement
    <3>3. CASE daily' = [daily EXCEPT ![Today] = daily[Today] + 1] /\ eroded' = eroded
      <4>1. daily'[d] = daily[d] + 1 /\ leaked' = leaked
        BY <1>0, <2>4, <3>3 DEF Takes
      <4> QED BY <2>1, <2>2, <3>2, <3>3, <4>1
    <3>4. CASE daily' = daily /\ eroded' = eroded \cup {Today}
      <4>1. leaked' = leaked
        BY DEF Takes
      <4> QED BY <2>1, <2>2, <2>4, <3>2, <3>4, <4>1
    <3> QED BY <3>3, <3>4 DEF Takes
  <2>5. CASE d # Today
    <3>1. Held(d)' = Held(d)
      BY <2>3, <2>5 DEF Held, Takes
    <3>2. daily'[d] = daily[d] /\ leaked' = leaked /\ (d \in eroded' <=> d \in eroded)
      BY <1>0, <2>5 DEF Takes
    <3> QED BY <2>2, <3>1, <3>2
  <2> QED BY <2>4, <2>5
<1> QED BY <1>1, <1>2 DEF Balanced

LEMMA CountedGives ==
  ASSUME Typed, Counted, NEW t \in Task, Gives(t)
  PROVE  IsFiniteSet(Holding)' /\ Balanced'
<1>0. /\ Today \in Day /\ daily \in [Day -> Int] /\ day[t] \in Day /\ IsFiniteSet(Holding)
  BY TodayIn DEF Typed, TypeOK, Counted
<1>1. IsFiniteSet(Holding)'
  BY <1>0, FS_RemoveElement DEF Gives
<1>2. ASSUME NEW d \in Day
      PROVE  /\ d \notin eroded' => Cardinality(Held(d))' <= daily'[d]
             /\ d \notin leaked' => daily'[d] <= Cardinality(Held(d))'
  <2>1. IsFiniteSet(Held(d)) /\ Cardinality(Held(d)) \in Nat /\ daily[d] \in Int
    BY <1>0, HeldFinite
  <2>2. /\ d \notin eroded => Cardinality(Held(d)) <= daily[d]
        /\ d \notin leaked => daily[d] <= Cardinality(Held(d))
    BY DEF Counted, Balanced
  <2>3. Held(d)' = Held(d) \ {t} /\ (t \in Held(d) <=> day[t] = d)
    BY DEF Held, Gives
  <2>4. Cardinality(Held(d))' = IF day[t] = d THEN Cardinality(Held(d)) - 1 ELSE Cardinality(Held(d))
    BY <2>1, <2>3, FS_RemoveElement
  <2>5. CASE Decr(t)
    <3>1. daily'[d] = IF d = Today THEN daily[d] - 1 ELSE daily[d]
      BY <1>0, <2>5 DEF Decr
    <3>2. /\ eroded' = IF day[t] = Today THEN eroded ELSE eroded \cup {Today}
          /\ leaked' = IF day[t] = Today THEN leaked ELSE leaked \cup {day[t]}
      BY <2>5 DEF Decr
    <3> QED BY <2>1, <2>2, <2>4, <3>1, <3>2
  <2>6. CASE UNCHANGED <<daily, eroded>> /\ Leak(day[t])
    BY <2>1, <2>2, <2>4, <2>6 DEF Leak
  <2> QED BY <2>5, <2>6 DEF Gives
<1> QED BY <1>1, <1>2 DEF Balanced

LEMMA CountedDies ==
  ASSUME Typed, Counted, Dies
  PROVE  IsFiniteSet(Holding)' /\ Balanced'
<1>0. IsFiniteSet(Holding) /\ daily \in [Day -> Int]
  BY DEF Counted, Typed, TypeOK
<1>1. IsFiniteSet(Holding)'
  <2>1. Holding' \in SUBSET Holding
    BY DEF Dies
  <2> QED BY <1>0, <2>1, FS_Subset
<1>2. ASSUME NEW d \in Day
      PROVE  /\ d \notin eroded' => Cardinality(Held(d))' <= daily'[d]
             /\ d \notin leaked' => daily'[d] <= Cardinality(Held(d))'
  <2>1. IsFiniteSet(Held(d)) /\ Cardinality(Held(d)) \in Nat /\ daily[d] \in Int
    BY <1>0, HeldFinite
  <2>2. /\ d \notin eroded => Cardinality(Held(d)) <= daily[d]
        /\ d \notin leaked => daily[d] <= Cardinality(Held(d))
    BY DEF Counted, Balanced
  <2>3. Held(d)' \in SUBSET Held(d)
    BY DEF Held, Dies
  <2>4. Cardinality(Held(d))' <= Cardinality(Held(d)) /\ Cardinality(Held(d))' \in Nat
    BY <2>1, <2>3, FS_Subset, FS_CardinalityType
  <2>5. d \notin leaked' => Held(d)' = Held(d)
    BY DEF Held, Dies
  <2>6. UNCHANGED <<daily, eroded>> /\ leaked \subseteq leaked'
    BY DEF Dies
  <2> QED BY <2>1, <2>2, <2>4, <2>5, <2>6
<1> QED BY <1>1, <1>2 DEF Balanced

\* the steps that move no request in or out
LEMMA CountedStays ==
  ASSUME Typed, Counted, Same \/ Orphans \/ \E t \in Task : Deletes(t)
  PROVE  IsFiniteSet(Holding)' /\ Balanced'
<1>0. /\ Today \in Day /\ daily \in [Day -> Int] /\ day \in [Task -> Day] /\ IsFiniteSet(Holding)
  BY TodayIn DEF Typed, TypeOK, Counted
<1>1. Holding' = Holding /\ day' = day
  BY DEF Same, Orphans, Deletes
<1>2. ASSUME NEW d \in Day
      PROVE  /\ d \notin eroded' => Cardinality(Held(d))' <= daily'[d]
             /\ d \notin leaked' => daily'[d] <= Cardinality(Held(d))'
  <2>1. Cardinality(Held(d)) \in Nat /\ daily[d] \in Int
    BY <1>0, HeldFinite
  <2>2. /\ d \notin eroded => Cardinality(Held(d)) <= daily[d]
        /\ d \notin leaked => daily[d] <= Cardinality(Held(d))
    BY DEF Counted, Balanced
  <2>3. Held(d)' = Held(d)
    BY <1>1 DEF Held
  <2>4. CASE Same
    BY <2>2, <2>3, <2>4 DEF Same
  <2>5. CASE Orphans
    <3>1. daily'[d] = IF d = Today THEN daily[d] + 1 ELSE daily[d]
      BY <1>0, <2>5 DEF Orphans
    <3>2. eroded' = eroded /\ leaked' = leaked \cup {Today}
      BY <2>5 DEF Orphans, Leak
    <3> QED BY <2>1, <2>2, <2>3, <3>1, <3>2
  <2>6. ASSUME NEW t \in Task, Deletes(t)
        PROVE  /\ d \notin eroded' => Cardinality(Held(d))' <= daily'[d]
               /\ d \notin leaked' => daily'[d] <= Cardinality(Held(d))'
    <3>1. daily'[d] = IF d = day[t] THEN 0 ELSE daily[d]
      BY <1>0, <2>6 DEF Deletes, Del
    <3>2. /\ eroded' = IF daily[day[t]] > 0 THEN eroded \cup {day[t]} ELSE eroded
          /\ leaked' = leaked
      BY <2>6 DEF Deletes, Del
    <3> QED BY <2>1, <2>2, <2>3, <3>1, <3>2
  <2> QED BY <2>4, <2>5, <2>6
<1> QED BY <1>0, <1>1, <1>2 DEF Balanced

LEMMA CountedInit == Init => Counted
<1> SUFFICES ASSUME Init PROVE Counted
  OBVIOUS
<1>1. Holding = {} /\ granted = {} /\ daily = [d \in Day |-> 0]
  BY DEF Init, Holding, Reserved
<1>2. \A d \in Day : Held(d) = {}
  BY <1>1 DEF Held
<1>3. IsFiniteSet(Holding) /\ GrantedPhase
  BY <1>1, FS_EmptySet DEF GrantedPhase
<1>4. Balanced
  BY <1>1, <1>2, FS_EmptySet DEF Balanced
<1> QED BY <1>3, <1>4 DEF Counted

LEMMA CountedNext == Typed /\ Counted /\ [Next]_vars => Counted'
<1> SUFFICES ASSUME Typed, Counted, [Next]_vars PROVE Counted'
  OBVIOUS
<1>1. Kind /\ GrantedPhase'
  BY StepKinds DEF Counted
<1>2. IsFiniteSet(Holding)' /\ Balanced'
  BY <1>1, CountedStays, CountedTakes, CountedGives, CountedDies DEF Kind
<1> QED BY <1>1, <1>2 DEF Counted

LEMMA CountedAlways == Spec => []Counted
<1>1. Typed /\ Counted /\ [Next]_vars => Counted'
  BY CountedNext
<1> QED BY <1>1, CountedInit, TypedAlways, PTL DEF Spec

\* The slots of a day are its granted requests and its pending reservations.
LEMMA HeldParts ==
  ASSUME Typed, Counted, NEW d \in Day
  PROVE  /\ Cardinality(Held(d)) = Cardinality(GrantedOn(d)) + Cardinality(ReservedOn(d))
         /\ Cardinality(GrantedOn(d)) \in Nat /\ Cardinality(ReservedOn(d)) \in Nat
<1>0. granted \subseteq Task /\ IsFiniteSet(Held(d))
  BY HeldFinite DEF Typed, TypeOK, Counted
<1>1. Held(d) = GrantedOn(d) \cup ReservedOn(d)
  BY <1>0 DEF Held, Holding, GrantedOn, ReservedOn
<1>2. GrantedOn(d) \cap ReservedOn(d) = {}
  BY DEF Counted, GrantedPhase, GrantedOn, ReservedOn, Past, Reserved
<1>3. IsFiniteSet(GrantedOn(d)) /\ IsFiniteSet(ReservedOn(d))
  BY <1>0, <1>1, FS_Subset
<1>4. Cardinality(GrantedOn(d)) \in Nat /\ Cardinality(ReservedOn(d)) \in Nat
  BY <1>3, FS_CardinalityType
<1>5. Cardinality(Held(d)) = Cardinality(GrantedOn(d)) + Cardinality(ReservedOn(d)) - Cardinality({})
  BY <1>1, <1>2, <1>3, FS_Union
<1> QED BY <1>4, <1>5, FS_EmptySet

\* The hard cap of budget.py over all processes: unless the counter of a day
\* lost a used slot, the day grants no more requests than the daily limit.
THEOREM DailyCapHolds == Spec => []DailyCap
<1>1. Typed /\ Counted => DailyCap
  <2> SUFFICES ASSUME Typed, Counted, NEW d \in Day \ eroded
               PROVE  Cardinality(GrantedOn(d)) <= DailyLimit
    BY DEF DailyCap
  <2>1. Cardinality(Held(d)) <= daily[d] /\ daily[d] <= DailyLimit /\ daily[d] \in Int
    BY DEF Counted, Balanced, Typed, TypeOK, UnderLimit
  <2> QED BY <2>1, HeldParts, LimitAssumption
<1> QED BY <1>1, TypedAlways, CountedAlways, PTL

\* The counter of a day in which no slot was left behind never exceeds what is
\* granted or still pending: rejected and cancelled requests give their slot
\* back.
THEOREM NoOvercountHolds == Spec => []NoOvercount
<1>1. Typed /\ Counted => NoOvercount
  <2> SUFFICES ASSUME Typed, Counted, NEW d \in Day \ leaked
               PROVE  daily[d] <= Cardinality(GrantedOn(d)) + Cardinality(ReservedOn(d))
    BY DEF NoOvercount
  <2>1. daily[d] <= Cardinality(Held(d))
    BY DEF Counted, Balanced
  <2> QED BY <2>1, HeldParts
<1> QED BY <1>1, TypedAlways, CountedAlways, PTL
=============================================================================
