--------------------------- MODULE JobQueueProofs ---------------------------
(* What TLAPS proves of JobQueue, for every set of messages, jobs and workers. *)
EXTENDS JobQueue, TLAPS

-----------------------------------------------------------------------------
(* The Redis calls keep the types of the keys. *)

\* A message's successor, the one _requeue pushes, is a message.
LEMMA NextAttempt ==
  ASSUME NEW m \in Msg, m.attempt < MaxRetries
  PROVE  [m EXCEPT !.attempt = @ + 1] \in Msg
  BY RetriesAssumption DEF Msg

\* The message handed out by BRPOPLPUSH is a message.
LEMMA HeadIsMsg ==
  ASSUME queue \in Seq(Msg), queue # <<>>
  PROVE  /\ Head(queue) \in Msg
         /\ Tail(queue) \in Seq(Msg)
  OBVIOUS

\* Every Redis call of the publisher and the consumer keeps the keys' types.
LEMMA CallTypes ==
  ASSUME RedisTypeOK, LocalTypeOK, NEW w \in Worker
  PROVE  /\ SetLease(w) => RedisTypeOK'
         /\ DelLease(w) => RedisTypeOK'
         /\ \A m \in Msg : LpushQueue(m) => RedisTypeOK'
         /\ \A m \in Msg : LpushDead(m) => RedisTypeOK'
         /\ Brpoplpush(w) => RedisTypeOK'
         /\ \A v \in Worker, m \in Msg : Rpop(v, m) => RedisTypeOK'
         /\ \A v \in Worker : DelProcessing(v) => RedisTypeOK'
         /\ cur[w] \in Msg => /\ Lrem(w) => RedisTypeOK'
                              /\ SetNx(w) => RedisTypeOK'
                              /\ LuaRelease(w) => RedisTypeOK'
                              /\ PushFailure(w) => RedisTypeOK'
         /\ UNCHANGED redisVars => RedisTypeOK'
  <1>1. SetLease(w) => RedisTypeOK'
    BY DEF RedisTypeOK, SetLease
  <1>2. DelLease(w) => RedisTypeOK'
    BY DEF RedisTypeOK, DelLease
  <1>3. \A m \in Msg : LpushQueue(m) => RedisTypeOK'
    BY DEF RedisTypeOK, LpushQueue
  <1>4. \A m \in Msg : LpushDead(m) => RedisTypeOK'
    BY DEF RedisTypeOK, LpushDead
  <1>5. Brpoplpush(w) => RedisTypeOK'
    BY HeadIsMsg DEF RedisTypeOK, Brpoplpush
  <1>7. \A v \in Worker, m \in Msg : Rpop(v, m) => RedisTypeOK'
    BY DEF RedisTypeOK, Rpop
  <1>8. \A v \in Worker : DelProcessing(v) => RedisTypeOK'
    BY DEF RedisTypeOK, DelProcessing, EmptyList
  <1>9. ASSUME cur[w] \in Msg
        PROVE  /\ Lrem(w) => RedisTypeOK'
               /\ SetNx(w) => RedisTypeOK'
               /\ LuaRelease(w) => RedisTypeOK'
               /\ PushFailure(w) => RedisTypeOK'
    <2>0. cur[w].id \in Id
      BY <1>9 DEF Msg
    <2>1. SetNx(w) => RedisTypeOK'
      <3>1. SetNx(w) => lock' \in [Job -> Id \cup {NoId}]
        BY <2>0 DEF RedisTypeOK, SetNx
      <3>2. SetNx(w) => setter' \in [Job -> SUBSET Worker]
        <4> DEFINE free == lock[JobIn(w)] = NoId
        <4>1. {w} \in SUBSET Worker /\ setter \in [Job -> SUBSET Worker]
          BY DEF RedisTypeOK
        <4>2. SetNx(w) => setter' = [setter EXCEPT ![JobIn(w)] = IF free THEN {w} ELSE @]
          BY DEF SetNx
        <4> HIDE DEF free
        <4> QED BY <4>1, <4>2
      <3> QED BY <3>1, <3>2 DEF RedisTypeOK, SetNx
    <2>2. LuaRelease(w) => RedisTypeOK'
      <3>1. LuaRelease(w) => lock' \in [Job -> Id \cup {NoId}]
        BY <2>0 DEF RedisTypeOK, LuaRelease
      <3>2. LuaRelease(w) => setter' \in [Job -> SUBSET Worker]
        BY DEF RedisTypeOK, LuaRelease
      <3> QED BY <3>1, <3>2 DEF RedisTypeOK, LuaRelease
    <2>3. PushFailure(w) => RedisTypeOK'
      BY <1>3, <1>4, <1>9, NextAttempt DEF PushFailure
    <2>4. Lrem(w) => RedisTypeOK'
      BY <1>9 DEF RedisTypeOK, Lrem
    <2> QED BY <2>1, <2>2, <2>3, <2>4
  <1>10. UNCHANGED redisVars => RedisTypeOK'
    BY DEF RedisTypeOK, redisVars
  <1> QED
    BY <1>1, <1>2, <1>3, <1>4, <1>5, <1>7, <1>8, <1>9, <1>10

-----------------------------------------------------------------------------
(* Type correctness. *)

\* The initial state is type correct.
LEMMA InitType == Init => TypeOK
  BY ErrorsAssumption
  DEF Init, TypeOK, RedisTypeOK, LocalTypeOK, HistTypeOK, HandTypeOK, EmptyList, PC,
      Outcome, Handling

\* Every step of a consumer keeps the types.
LEMMA WorkerStepType ==
  ASSUME TypeOK, NEW w \in Worker, WorkerStep(w)
  PROVE  TypeOK'
  <1> USE DEF TypeOK
  <1> DEFINE Rest == LocalTypeOK /\ HistTypeOK /\ HandTypeOK
  <1>0. pc[w] \in Handling \cup {"repush"} => cur[w] \in Msg
    BY DEF HandTypeOK
  <1>1. CASE Start(w)
    <2>1. RedisTypeOK'
      BY <1>0, <1>1, CallTypes DEF Start, LocalTypeOK, Handling, redisVars
    <2>2. Rest'
      BY <1>0, <1>1 DEF Start, Goto, LocalTypeOK, HistTypeOK, HandTypeOK, PC, Outcome, Handling, Msg, histVars
    <2> QED BY <2>1, <2>2
  <1>2. CASE \E v \in Worker : ScanKey(w, v)
    <2>1. RedisTypeOK'
      BY <1>0, <1>2, CallTypes DEF ScanKey, LocalTypeOK, Handling, redisVars
    <2>2. Rest'
      BY <1>0, <1>2 DEF ScanKey, Goto, LocalTypeOK, HistTypeOK, HandTypeOK, PC, Outcome, Handling, Msg, histVars
    <2> QED BY <2>1, <2>2
  <1>3. CASE \E v \in Worker : ScanPass(w, v)
    <2>1. RedisTypeOK'
      BY <1>0, <1>3, CallTypes DEF ScanPass, LocalTypeOK, Handling, redisVars
    <2>2. Rest'
      BY <1>0, <1>3 DEF ScanPass, Goto, LocalTypeOK, HistTypeOK, HandTypeOK, PC, Outcome, Handling, Msg, histVars
    <2> QED BY <2>1, <2>2
  <1>4. CASE CheckLease(w)
    <2>1. RedisTypeOK'
      BY <1>0, <1>4, CallTypes DEF CheckLease, LocalTypeOK, Handling, redisVars
    <2>2. PICK label \in {"scan", "drain"} :
            /\ pc[w] = "check"
            /\ pc' = [pc EXCEPT ![w] = label]
            /\ target' = [target EXCEPT ![w] = w] \/ target' = target
            /\ UNCHANGED <<cur, outcome, toScan, dedup, histVars>>
      BY <1>4 DEF CheckLease, Goto, histVars
    <2>3. Rest'
      BY <2>2 DEF LocalTypeOK, HistTypeOK, HandTypeOK, PC, Outcome, Handling, Msg, histVars
    <2> QED BY <2>1, <2>3
  <1>5. CASE \E m \in Msg : RecoverPop(w, m)
    <2>1. RedisTypeOK'
      BY <1>0, <1>5, CallTypes DEF RecoverPop, LocalTypeOK, Handling, redisVars
    <2>2. Rest'
      BY <1>0, <1>5 DEF RecoverPop, Goto, LocalTypeOK, HistTypeOK, HandTypeOK, PC, Outcome, Handling, Msg, histVars, Rpop
    <2> QED BY <2>1, <2>2
  <1>6. CASE RecoverEmpty(w)
    <2>1. RedisTypeOK'
      BY <1>0, <1>6, CallTypes DEF RecoverEmpty, LocalTypeOK, Handling, redisVars
    <2>2. Rest'
      BY <1>0, <1>6 DEF RecoverEmpty, Goto, LocalTypeOK, HistTypeOK, HandTypeOK, PC, Outcome, Handling, Msg, histVars
    <2> QED BY <2>1, <2>2
  <1>7. CASE RecoverPush(w)
    <2>1. RedisTypeOK'
      BY <1>0, <1>7, CallTypes DEF RecoverPush, LocalTypeOK, Handling, redisVars
    <2>2. Rest'
      BY <1>0, <1>7 DEF RecoverPush, Goto, LocalTypeOK, HistTypeOK, HandTypeOK, PC, Outcome, Handling, Msg, histVars
    <2> QED BY <2>1, <2>2
  <1>8. CASE RecoverDelete(w)
    <2>1. RedisTypeOK'
      BY <1>0, <1>8, CallTypes DEF RecoverDelete, LocalTypeOK, Handling, redisVars
    <2>2. Rest'
      BY <1>0, <1>8 DEF RecoverDelete, Goto, LocalTypeOK, HistTypeOK, HandTypeOK, PC, Outcome, Handling, Msg, histVars
    <2> QED BY <2>1, <2>2
  <1>9. CASE ScanDone(w)
    <2>1. RedisTypeOK'
      BY <1>0, <1>9, CallTypes DEF ScanDone, LocalTypeOK, Handling, redisVars
    <2>2. Rest'
      BY <1>0, <1>9 DEF ScanDone, Goto, LocalTypeOK, HistTypeOK, HandTypeOK, PC, Outcome, Handling, Msg, histVars
    <2> QED BY <2>1, <2>2
  <1>10. CASE Claim(w)
    <2>1. RedisTypeOK'
      BY <1>0, <1>10, CallTypes DEF Claim, LocalTypeOK, Handling, redisVars
    <2>2. Rest'
      BY <1>0, <1>10, HeadIsMsg DEF Claim, Goto, LocalTypeOK, HistTypeOK, HandTypeOK, PC, Outcome, Handling, Msg, histVars, Brpoplpush, RedisTypeOK
    <2> QED BY <2>1, <2>2
  <1>11. CASE Reject(w)
    <2>1. RedisTypeOK'
      BY <1>0, <1>11, CallTypes DEF Reject, LocalTypeOK, Handling, redisVars
    <2>2. Rest'
      BY <1>0, <1>11 DEF Reject, Goto, Record, LocalTypeOK, HistTypeOK, HandTypeOK, PC, Outcome, Handling, Msg, histVars, LogEntry
    <2> QED BY <2>1, <2>2
  <1>12. CASE NotFound(w)
    <2>1. RedisTypeOK'
      BY <1>0, <1>12, CallTypes DEF NotFound, LocalTypeOK, Handling, redisVars
    <2>2. Rest'
      BY <1>0, <1>12 DEF NotFound, Goto, LocalTypeOK, HistTypeOK, HandTypeOK, PC, Outcome, Handling, Msg, histVars
    <2> QED BY <2>1, <2>2
  <1>13. CASE Duplicate(w)
    <2>1. RedisTypeOK'
      BY <1>0, <1>13, CallTypes DEF Duplicate, LocalTypeOK, Handling, redisVars
    <2>2. Rest'
      BY <1>0, <1>13 DEF Duplicate, Goto, Record, LocalTypeOK, HistTypeOK, HandTypeOK, PC, Outcome, Handling, Msg, histVars, LogEntry
    <2> QED BY <2>1, <2>2
  <1>14. CASE Mark(w)
    <2>1. RedisTypeOK'
      BY <1>0, <1>14, CallTypes DEF Mark, LocalTypeOK, Handling, redisVars
    <2>2. Rest'
      BY <1>0, <1>14 DEF Mark, Goto, LocalTypeOK, HistTypeOK, HandTypeOK, PC, Outcome, Handling, Msg, histVars
    <2> QED BY <2>1, <2>2
  <1>15. CASE LockAcquired(w)
    <2>1. RedisTypeOK'
      BY <1>0, <1>15, CallTypes DEF LockAcquired, LocalTypeOK, Handling, redisVars
    <2>2. Rest'
      BY <1>0, <1>15 DEF LockAcquired, Goto, LocalTypeOK, HistTypeOK, HandTypeOK, PC, Outcome, Handling, Msg, histVars
    <2> QED BY <2>1, <2>2
  <1>16. CASE LockBusy(w)
    <2>1. RedisTypeOK'
      BY <1>0, <1>16, CallTypes DEF LockBusy, LocalTypeOK, Handling, redisVars
    <2>2. Rest'
      BY <1>0, <1>16 DEF LockBusy, Goto, Record, LocalTypeOK, HistTypeOK, HandTypeOK, PC, Outcome, Handling, Msg, histVars, LogEntry
    <2> QED BY <2>1, <2>2
  <1>17. CASE \E r \in {"ok", "fail", "benign"} : JobReturns(w, r)
    <2>1. RedisTypeOK'
      BY <1>0, <1>17, CallTypes DEF JobReturns, LocalTypeOK, Handling, redisVars
    <2>2. Rest'
      BY <1>0, <1>17 DEF JobReturns, Goto, Record, LocalTypeOK, HistTypeOK, HandTypeOK, PC, Outcome, Handling, Msg, histVars, LogEntry
    <2> QED BY <2>1, <2>2
  <1>18. CASE Release(w)
    <2>1. RedisTypeOK'
      BY <1>0, <1>18, CallTypes DEF Release, LocalTypeOK, Handling, redisVars
    <2>2. Rest'
      BY <1>0, <1>18 DEF Release, Goto, LocalTypeOK, HistTypeOK, HandTypeOK, PC, Outcome, Handling, Msg, histVars
    <2> QED BY <2>1, <2>2
  <1>19. CASE HandleFailure(w)
    <2>1. RedisTypeOK'
      BY <1>0, <1>19, CallTypes DEF HandleFailure, LocalTypeOK, Handling, redisVars
    <2>2. Rest'
      BY <1>0, <1>19 DEF HandleFailure, Goto, LocalTypeOK, HistTypeOK, HandTypeOK, PC, Outcome, Handling, Msg, histVars
    <2> QED BY <2>1, <2>2
  <1>20. CASE Ack(w)
    <2>1. RedisTypeOK'
      BY <1>0, <1>20, CallTypes DEF Ack, LocalTypeOK, Handling, redisVars
    <2>2. Rest'
      BY <1>0, <1>20 DEF Ack, Goto, LocalTypeOK, HistTypeOK, HandTypeOK, PC, Outcome, Handling, Msg, histVars
    <2> QED BY <2>1, <2>2
  <1>21. CASE Unlease(w)
    <2>1. RedisTypeOK'
      BY <1>0, <1>21, CallTypes DEF Unlease, LocalTypeOK, Handling, redisVars
    <2>2. Rest'
      BY <1>0, <1>21 DEF Unlease, Goto, Forget, LocalTypeOK, HistTypeOK, HandTypeOK, PC, Outcome, Handling, Msg, histVars
    <2> QED BY <2>1, <2>2
  <1> QED
    BY <1>1, <1>2, <1>3, <1>4, <1>5, <1>6, <1>7, <1>8, <1>9, <1>10, <1>11, <1>12, <1>13, <1>14, <1>15, <1>16, <1>17, <1>18, <1>19, <1>20, <1>21 DEF WorkerStep
\* A cancelled loop and a raising Redis call keep the types, provided the call
\* they interrupt does.
LEMMA FaultType ==
  ASSUME TypeOK, NEW w \in Worker, Fault(w)
  PROVE  TypeOK'
  <1> USE DEF TypeOK
  <1> DEFINE Rest == LocalTypeOK /\ HistTypeOK /\ HandTypeOK
  <1>0. pc[w] \in Handling \cup {"repush"} => cur[w] \in Msg
    BY DEF HandTypeOK
  <1>1. CASE Crash(w)
    <2>1. RedisTypeOK'
      BY <1>1, CallTypes DEF Crash, LocalTypeOK
    <2>2. Rest'
      BY <1>1 DEF Crash, Goto, Forget, LocalTypeOK, HistTypeOK, HandTypeOK, PC, Outcome,
         Handling, histVars
    <2> QED BY <2>1, <2>2
  <1>2. CASE Stop(w)
    <2>1. RedisTypeOK'
      BY <1>0, <1>2, CallTypes
      DEF Stop, Cancelled, Unanswered, LocalTypeOK, Handling
    <2>2. PICK at \in PC, next \in {"unlease", "ack", "release"} :
            /\ pc[w] = at
            /\ next # "unlease" => at \in Handling
            /\ outcome' = [outcome EXCEPT ![w] = "stop"]
            /\ cur' = [cur EXCEPT ![w] = IF next = "unlease" THEN NoMsg ELSE @]
            /\ toScan' = [toScan EXCEPT ![w] = {}]
            /\ target' = [target EXCEPT ![w] = w]
            /\ pc' = [pc EXCEPT ![w] = next]
            /\ UNCHANGED <<dedup, histVars>>
      BY <1>2 DEF Stop, Cancelled, Goto, PC, Handling
    <2>3. Rest'
      BY <1>0, <2>2 DEF LocalTypeOK, HistTypeOK, HandTypeOK, PC, Outcome, Handling, histVars
    <2> QED BY <2>1, <2>3
  <1>3. CASE RedisError(w)
    <2>1. RedisTypeOK'
      BY <1>0, <1>3, CallTypes
      DEF RedisError, Raises, Unanswered, LocalTypeOK, Handling
    <2>2. PICK at \in PC, next \in {"idle", "unlease", "ack", "failing", "stopped"} :
            /\ errors < MaxErrors
            /\ pc[w] = at
            /\ next \in {"ack", "failing"} => at \in Handling
            /\ cur' = [cur EXCEPT ![w] = IF next \in {"idle", "unlease"} THEN NoMsg ELSE @]
            /\ toScan' = [toScan EXCEPT ![w] = {}]
            /\ target' = [target EXCEPT ![w] = w]
            /\ outcome' = [outcome EXCEPT ![w] = IF next = "idle" THEN "none" ELSE @]
            /\ pc' = [pc EXCEPT ![w] = next]
            /\ errors' = errors + 1
            /\ UNCHANGED <<dedup, pub, ran>>
            /\ log' = log \/ (at \in Handling /\ Record(w, "lock"))
      BY <1>3 DEF RedisError, Raises, Goto, PC, Handling
    <2>3. LocalTypeOK' /\ HandTypeOK'
      BY <1>0, <2>2 DEF LocalTypeOK, HandTypeOK, PC, Outcome, Handling
    <2>4. HistTypeOK'
      BY <1>0, <2>2, ErrorsAssumption
      DEF LocalTypeOK, HistTypeOK, Handling, Record, LogEntry, Msg
    <2> QED BY <2>1, <2>3, <2>4
  <1> QED
    BY <1>1, <1>2, <1>3 DEF Fault

\* Type correctness is inductive.
LEMMA NextType == TypeOK /\ [Next]_vars => TypeOK'
  <1> SUFFICES ASSUME TypeOK, [Next]_vars PROVE TypeOK'
    OBVIOUS
  <1>1. CASE \E i \in Id : Publish(i)
    <2> PICK i \in Id : Publish(i)
      BY <1>1
    <2>1. [id |-> i, attempt |-> 1] \in Msg
      BY RetriesAssumption DEF Msg
    <2>2. RedisTypeOK'
      BY <2>1 DEF Publish, LpushQueue, TypeOK, RedisTypeOK
    <2> QED
      BY <2>2 DEF Publish, TypeOK, LocalTypeOK, HistTypeOK, HandTypeOK, localVars
  <1>2. CASE \E w \in Worker : WorkerStep(w)
    BY <1>2, WorkerStepType
  <1>3. CASE \E w \in Worker : Fault(w)
    BY <1>3, FaultType
  <1>4. CASE \E j \in Job : LockExpires(j)
    BY <1>4 DEF LockExpires, TypeOK, RedisTypeOK, LocalTypeOK, HistTypeOK, HandTypeOK,
       localVars, histVars
  <1>5. CASE \E w \in Worker : LeaseExpires(w)
    BY <1>5 DEF LeaseExpires, TypeOK, RedisTypeOK, LocalTypeOK, HistTypeOK, HandTypeOK,
       localVars, histVars
  <1>6. CASE \E w \in Worker, i \in Id : DedupExpires(w, i)
    BY <1>6 DEF DedupExpires, TypeOK, RedisTypeOK, LocalTypeOK, HistTypeOK, HandTypeOK,
       redisVars, histVars
  <1>7. CASE UNCHANGED vars
    BY <1>7 DEF vars, redisVars, localVars, histVars, TypeOK, RedisTypeOK, LocalTypeOK,
       HistTypeOK, HandTypeOK
  <1> QED
    BY <1>1, <1>2, <1>3, <1>4, <1>5, <1>6, <1>7 DEF Next

\* TypeOK holds in every reachable state: the consumer never pushes, removes or
\* runs anything but a message with an attempt number in 1..MaxRetries.
THEOREM TypeCorrect == Spec => []TypeOK
  BY InitType, NextType, PTL DEF Spec
-----------------------------------------------------------------------------
(* Mutual exclusion. The lock's token is a job id, so the invariant says that *)
(* a worker inside dispatch's try owns the key of its job: then the key is not *)
(* free and no other worker of that job gets in.                               *)

Owns == \A w \in Worker : pc[w] \in Executing => lock[JobIn(w)] = cur[w].id

Alone ==
  \A v, w \in Worker :
    pc[v] \in Executing /\ pc[w] \in Executing /\ v # w => JobIn(v) # JobIn(w)

LockInv == Owns /\ Alone

\* A step that neither touches a lock nor lets a worker into the try keeps it.
LEMMA LockUntouched ==
  ASSUME LockInv, UNCHANGED lock,
         \A w \in Worker : pc'[w] \in Executing => pc[w] \in Executing /\ cur'[w] = cur[w]
  PROVE  LockInv'
  BY DEF LockInv, Owns, Alone, JobIn

\* A worker inside the try has a message, which names a job.
LEMMA JobInJob ==
  ASSUME TypeOK, NEW w \in Worker, pc[w] \in Executing
  PROVE  JobIn(w) \in Job
  BY JobOfAssumption DEF TypeOK, HandTypeOK, Executing, Handling, JobIn, Msg

\* A release by an owner, applied or not, keeps it once the owner has left.
LEMMA OwnerLeaves ==
  ASSUME TypeOK, LockInv, NEW w \in Worker, pc[w] \in Executing, Unanswered(LuaRelease(w)),
         pc'[w] \notin Executing,
         \A v \in Worker \ {w} : pc'[v] = pc[v] /\ cur'[v] = cur[v]
  PROVE  LockInv'
  <1>1. ASSUME NEW v \in Worker, pc'[v] \in Executing
        PROVE  /\ v # w /\ pc[v] \in Executing /\ cur'[v] = cur[v]
               /\ JobIn(v) # JobIn(w) /\ JobIn(v)' = JobIn(v)
               /\ lock'[JobIn(v)] = lock[JobIn(v)]
    <2>1. v # w /\ pc[v] \in Executing /\ cur'[v] = cur[v]
      BY <1>1
    <2>2. JobIn(v) # JobIn(w) /\ JobIn(v)' = JobIn(v)
      BY <2>1 DEF LockInv, Alone, JobIn
    <2>3. lock'[JobIn(v)] = lock[JobIn(v)]
      BY <2>1, <2>2, JobInJob DEF Unanswered, LuaRelease, redisVars, TypeOK, RedisTypeOK
    <2> QED BY <2>1, <2>2, <2>3
  <1>2. Owns'
    BY <1>1 DEF LockInv, Owns
  <1>3. Alone'
    BY <1>1 DEF LockInv, Alone
  <1> QED BY <1>2, <1>3 DEF LockInv

\* A lock that is set only when free, by a worker outside the try, changes the
\* lock of no worker inside it.
LEMMA SetByOutsider ==
  ASSUME TypeOK, LockInv, NEW w \in Worker, cur[w] \in Msg, Unanswered(SetNx(w)),
         NEW v \in Worker, pc[v] \in Executing
  PROVE  lock'[JobIn(v)] = lock[JobIn(v)]
  <1>1. cur[v] \in Msg
    BY DEF TypeOK, HandTypeOK, Executing, Handling
  <1>2. lock[JobIn(v)] # NoId
    BY <1>1, IdAssumption DEF LockInv, Owns, Msg
  <1> QED
    BY <1>2, JobInJob DEF Unanswered, SetNx, redisVars, TypeOK, RedisTypeOK

\* The lock invariant is inductive when no job outlasts the lock's TTL.
LEMMA LockStep ==
  ASSUME "slow_lock" \notin Faults, TypeOK, LockInv, [Next]_vars
  PROVE  LockInv'
  <1> USE DEF Executing
  <1>1. CASE \E i \in Id : Publish(i)
    BY <1>1, LockUntouched DEF Publish, LpushQueue, localVars
  <1>2. CASE \E w \in Worker : WorkerStep(w)
    <2> PICK w \in Worker : WorkerStep(w)
      BY <1>2
    <2> USE DEF TypeOK, LocalTypeOK, Goto
    <2>1. CASE Start(w)
      BY <2>1, LockUntouched DEF Start, SetLease
    <2>2. CASE \E v \in Worker : ScanKey(w, v) \/ ScanPass(w, v)
      BY <2>2, LockUntouched DEF ScanKey, ScanPass, redisVars
    <2>3. CASE CheckLease(w)
      <3>1. \A v \in Worker : pc'[v] = pc[v] \/ pc'[v] \in {"scan", "drain"}
        BY <2>3 DEF CheckLease
      <3> QED
        BY <2>3, <3>1, LockUntouched DEF CheckLease, redisVars
    <2>4. CASE \E m \in Msg : RecoverPop(w, m)
      BY <2>4, LockUntouched DEF RecoverPop, Rpop
    <2>5. CASE RecoverEmpty(w)
      BY <2>5, LockUntouched DEF RecoverEmpty, redisVars
    <2>6. CASE RecoverPush(w)
      BY <2>6, LockUntouched DEF RecoverPush, LpushQueue
    <2>7. CASE RecoverDelete(w)
      BY <2>7, LockUntouched DEF RecoverDelete, DelProcessing
    <2>8. CASE ScanDone(w)
      BY <2>8, LockUntouched DEF ScanDone, redisVars
    <2>9. CASE Claim(w)
      BY <2>9, LockUntouched DEF Claim, Brpoplpush
    <2>10. CASE Reject(w) \/ NotFound(w) \/ Duplicate(w) \/ Mark(w) \/ LockBusy(w)
      BY <2>10, LockUntouched DEF Reject, NotFound, Duplicate, Mark, LockBusy, redisVars
    <2>11. CASE LockAcquired(w)
      <3>1. cur[w] \in Msg
        BY <2>11 DEF LockAcquired, HandTypeOK, Handling
      <3>2. lock[JobIn(w)] = NoId /\ lock' = [lock EXCEPT ![JobIn(w)] = cur[w].id]
        BY <2>11 DEF LockAcquired, SetNx, RedisTypeOK
      <3>3. UNCHANGED cur /\ pc' = [pc EXCEPT ![w] = "running"]
        BY <2>11 DEF LockAcquired
      <3>4. JobIn(w) \in Job
        BY <3>1, JobOfAssumption DEF JobIn, Msg
      <3>5. \A v \in Worker : pc[v] \in Executing => JobIn(v) # JobIn(w)
        <4> SUFFICES ASSUME NEW v \in Worker, pc[v] \in Executing
                     PROVE  JobIn(v) # JobIn(w)
          OBVIOUS
        <4>1. cur[v].id \in Id
          BY DEF HandTypeOK, Handling, Msg
        <4> QED
          BY <3>2, <4>1, IdAssumption DEF LockInv, Owns
      <3>6. \A v \in Worker : JobIn(v)' = JobIn(v)
        BY <3>3 DEF JobIn
      <3>7. Owns'
        BY <3>2, <3>3, <3>4, <3>5, <3>6 DEF LockInv, Owns, RedisTypeOK
      <3>8. Alone'
        BY <3>3, <3>5, <3>6 DEF LockInv, Alone
      <3> QED BY <3>7, <3>8 DEF LockInv
    <2>12. CASE \E r \in {"ok", "fail", "benign"} : JobReturns(w, r)
      BY <2>12, LockUntouched DEF JobReturns, redisVars
    <2>13. CASE Release(w)
      BY <2>13, OwnerLeaves DEF Release, Unanswered
    <2>14. CASE HandleFailure(w)
      BY <2>14, LockUntouched DEF HandleFailure, PushFailure, LpushQueue, LpushDead
    <2>15. CASE Ack(w)
      BY <2>15, LockUntouched DEF Ack, Lrem
    <2>16. CASE Unlease(w)
      BY <2>16, LockUntouched DEF Unlease, DelLease
    <2> QED
      BY <2>1, <2>2, <2>3, <2>4, <2>5, <2>6, <2>7, <2>8, <2>9, <2>10, <2>11, <2>12,
         <2>13, <2>14, <2>15, <2>16 DEF WorkerStep
  <1>3. CASE \E w \in Worker : Fault(w)
    <2> PICK w \in Worker : Fault(w)
      BY <1>3
    <2> USE DEF TypeOK, LocalTypeOK, Goto
    <2>1. CASE Crash(w)
      BY <2>1, LockUntouched DEF Crash, redisVars
    <2>2. ASSUME pc[w] = "locking", Unanswered(SetNx(w)),
                 pc' = [pc EXCEPT ![w] = "ack"], UNCHANGED cur
          PROVE  LockInv'
      <3>1. \A v \in Worker : pc'[v] \in Executing =>
              pc[v] \in Executing /\ JobIn(v)' = JobIn(v) /\ lock'[JobIn(v)] = lock[JobIn(v)]
        BY <2>2, SetByOutsider DEF JobIn, HandTypeOK, Handling
      <3> QED
        BY <2>2, <3>1 DEF LockInv, Owns, Alone
    <2>3. CASE Stop(w)
      <3>1. CASE Cancelled(w, "locking", SetNx(w), "ack")
        BY <2>2, <3>1 DEF Cancelled
      <3>2. CASE Cancelled(w, "release", LuaRelease(w), "ack")
        BY <3>2, OwnerLeaves DEF Cancelled
      <3>3. CASE ~ Cancelled(w, "locking", SetNx(w), "ack") /\
                 ~ Cancelled(w, "release", LuaRelease(w), "ack")
        <4>1. UNCHANGED lock
          BY <2>3, <3>3 DEF Stop, Cancelled, Unanswered, SetLease, Rpop, LpushQueue, LpushDead,
             DelProcessing, Brpoplpush, PushFailure, Lrem, redisVars
        <4>2. \A v \in Worker : pc'[v] \in Executing => pc[v] \in Executing /\ cur'[v] = cur[v]
          BY <2>3, <3>3 DEF Stop, Cancelled
        <4> QED BY <4>1, <4>2, LockUntouched
      <3> QED BY <3>1, <3>2, <3>3
    <2>4. CASE RedisError(w)
      <3>1. CASE pc[w] = "locking"
        <4>1. Raises(w, "locking", SetNx(w), "ack")
          BY <2>4, <3>1 DEF RedisError, Raises
        <4> QED BY <2>2, <4>1 DEF Raises
      <3>2. CASE pc[w] = "release"
        <4>1. Raises(w, "release", LuaRelease(w), IF outcome[w] = "fail" THEN "failing" ELSE "ack")
          BY <2>4, <3>2 DEF RedisError, Raises
        <4> QED BY <3>2, <4>1, OwnerLeaves DEF Raises
      <3>3. CASE pc[w] \notin {"locking", "release"}
        <4>1. UNCHANGED lock
          BY <2>4, <3>3 DEF RedisError, Raises, Unanswered, Rpop, LpushQueue, LpushDead,
             DelProcessing, Brpoplpush, PushFailure, Lrem, SetLease, DelLease, redisVars
        <4>2. \A v \in Worker : pc'[v] \in Executing => pc[v] \in Executing /\ cur'[v] = cur[v]
          BY <2>4, <3>3 DEF RedisError, Raises
        <4> QED BY <4>1, <4>2, LockUntouched
      <3> QED BY <3>1, <3>2, <3>3
    <2> QED BY <2>1, <2>3, <2>4 DEF Fault
  <1>4. CASE \E j \in Job : LockExpires(j)
    <2> PICK j \in Job : LockExpires(j)
      BY <1>4
    <2>1. \A w \in Worker : pc[w] \in Executing => JobIn(w) # j
      BY DEF LockExpires, LockInv, Owns
    <2> QED
      BY <2>1 DEF LockExpires, LockInv, Owns, Alone, JobIn, localVars, TypeOK, RedisTypeOK
  <1>5. CASE \E w \in Worker : LeaseExpires(w)
    BY <1>5, LockUntouched DEF LeaseExpires, localVars
  <1>6. CASE \E w \in Worker, i \in Id : DedupExpires(w, i)
    BY <1>6, LockUntouched DEF DedupExpires, redisVars
  <1>7. CASE UNCHANGED vars
    BY <1>7, LockUntouched DEF vars, redisVars, localVars
  <1> QED
    BY <1>1, <1>2, <1>3, <1>4, <1>5, <1>6, <1>7 DEF Next

\* No two workers are inside job.run() of one job, for any number of workers,
\* jobs and messages and under every fault, provided no job outlasts the TTL.
THEOREM Exclusion ==
  ASSUME "slow_lock" \notin Faults
  PROVE  Spec => []MutualExclusion
  <1>1. Init => LockInv
    BY DEF Init, LockInv, Owns, Alone, Executing
  <1>2. TypeOK /\ LockInv /\ [Next]_vars => LockInv'
    BY LockStep
  <1>3. LockInv => MutualExclusion
    BY DEF LockInv, Alone, MutualExclusion, Executing
  <1> QED
    BY <1>1, <1>2, <1>3, TypeCorrect, PTL DEF Spec
-----------------------------------------------------------------------------
(* The lease. A consuming worker has its lease, so a list found without one    *)
(* belongs to a worker that died, and nobody adds to it any more.              *)

LeaseHeld == \A w \in Worker : pc[w] \in Alive => lease[w] = TRUE
UnstartedEmpty == \A w \in Worker : pc[w] = "new" => proc[w] = EmptyList
TargetStarted ==
  \A w \in Worker :
    pc[w] \in {"check", "drain", "repush", "delete"} => pc[target[w]] # "new"
TargetDrained ==
  \A w \in Worker : pc[w] = "delete" => proc[target[w]] = EmptyList

LeaseInv ==
  LeaseHeld /\ UnstartedEmpty /\ TargetStarted /\ LeaseProtects /\ TargetDrained

\* What a step of worker w leaves alone, and where it may leave w.
LeaseFrame(w) ==
  /\ \/ pc[w] \in Alive \cup {"new"}
     \/ pc[w] = "unlease" /\ pc'[w] \notin Alive /\ proc' = proc
  /\ pc'[w] # "new"
  /\ \A v \in Worker \ {w} :
       pc'[v] = pc[v] /\ target'[v] = target[v] /\ lease'[v] = lease[v]
  /\ pc'[w] \in Alive => lease'[w] = TRUE
  /\ \A v \in Worker :
       proc[v] = EmptyList /\ (v # w \/ pc[w] = "new") => proc'[v] = EmptyList
  /\ pc'[w] \in {"check", "drain", "repush", "delete"} => pc[target'[w]] # "new"
  /\ pc'[w] \in {"drain", "repush", "delete"} => pc[target'[w]] \notin Alive
  /\ pc'[w] = "delete" => proc'[target'[w]] = EmptyList

\* A step within the frame keeps the invariant.
LEMMA FrameKeepsLease ==
  ASSUME TypeOK, TypeOK', LeaseInv, NEW w \in Worker, LeaseFrame(w)
  PROVE  LeaseInv'
  <1> USE DEF LeaseInv, LeaseFrame, TypeOK, LocalTypeOK
  <1>1. LeaseHeld'
    BY DEF LeaseHeld
  <1>2. UnstartedEmpty'
    BY DEF UnstartedEmpty
  <1>3. TargetStarted'
    BY DEF TargetStarted
  <1>4. ASSUME NEW v \in Worker, pc'[v] \in {"drain", "repush", "delete"}
        PROVE  pc'[target'[v]] \notin Alive /\ (target'[v] = w => proc' = proc)
    <2>1. pc[target'[v]] \notin Alive /\ pc[target'[v]] # "new" /\ target'[v] \in Worker
      BY <1>4 DEF LeaseProtects, TargetStarted
    <2> QED BY <2>1
  <1>5. LeaseProtects'
    BY <1>4 DEF LeaseProtects
  <1>6. TargetDrained'
    BY <1>4 DEF TargetDrained
  <1> QED BY <1>1, <1>2, <1>3, <1>5, <1>6

\* An empty list has no copy of any message.
LEMMA EmptyHasNone ==
  ASSUME NEW v \in Worker, NEW m \in Msg, proc[v] = EmptyList
  PROVE  proc[v][m] = 0
  BY DEF EmptyList

\* Every step of a consumer stays within the frame.
LEMMA WorkerStepFrame ==
  ASSUME TypeOK, LeaseInv, NEW w \in Worker, WorkerStep(w)
  PROVE  LeaseFrame(w)
  <1> USE DEF TypeOK, LocalTypeOK, LeaseFrame, Goto, Alive, PC
  <1>0. pc[w] \in Alive => lease[w] = TRUE
    BY DEF LeaseInv, LeaseHeld
  <1>1. CASE Start(w)
    BY <1>1 DEF Start, SetLease, RedisTypeOK
  <1>2. CASE \E v \in Worker : ScanKey(w, v)
    <2> PICK v \in Worker : ScanKey(w, v)
      BY <1>2
    <2>1. pc[v] # "new"
      BY DEF ScanKey, LeaseInv, UnstartedEmpty
    <2> QED
      BY <1>0, <2>1 DEF ScanKey, redisVars
  <1>3. CASE \E v \in Worker : ScanPass(w, v)
    BY <1>0, <1>3 DEF ScanPass, redisVars
  <1>4. CASE CheckLease(w)
    <2>1. pc[target[w]] # "new"
      BY <1>4 DEF CheckLease, LeaseInv, TargetStarted
    <2>2. CASE lease[target[w]] = TRUE
      BY <1>0, <1>4, <2>2 DEF CheckLease, redisVars
    <2>3. CASE lease[target[w]] = FALSE
      <3>1. pc[target[w]] \notin Alive
        BY <2>3 DEF LeaseInv, LeaseHeld
      <3> QED
        BY <1>0, <1>4, <2>1, <2>3, <3>1 DEF CheckLease, redisVars
    <2> QED
      BY <2>2, <2>3 DEF RedisTypeOK
  <1>5. CASE \E m \in Msg : RecoverPop(w, m)
    <2> PICK m \in Msg : RecoverPop(w, m)
      BY <1>5
    <2>1. proc[target[w]] # EmptyList
      BY EmptyHasNone DEF RecoverPop, Rpop
    <2>2. pc[target[w]] # "new" /\ pc[target[w]] \notin Alive
      BY DEF RecoverPop, LeaseInv, TargetStarted, LeaseProtects
    <2>3. \A v \in Worker : proc[v] = EmptyList => proc'[v] = EmptyList
      BY <2>1 DEF RecoverPop, Rpop, RedisTypeOK
    <2> QED
      BY <1>0, <2>2, <2>3 DEF RecoverPop, Rpop
  <1>6. CASE RecoverEmpty(w)
    <2>1. pc[target[w]] # "new" /\ pc[target[w]] \notin Alive
      BY <1>6 DEF RecoverEmpty, LeaseInv, TargetStarted, LeaseProtects
    <2> QED
      BY <1>0, <1>6, <2>1 DEF RecoverEmpty, redisVars
  <1>7. CASE RecoverPush(w)
    <2>1. pc[target[w]] # "new" /\ pc[target[w]] \notin Alive
      BY <1>7 DEF RecoverPush, LeaseInv, TargetStarted, LeaseProtects
    <2> QED
      BY <1>0, <1>7, <2>1 DEF RecoverPush, LpushQueue
  <1>8. CASE RecoverDelete(w)
    BY <1>0, <1>8 DEF RecoverDelete, DelProcessing, RedisTypeOK
  <1>9. CASE ScanDone(w)
    BY <1>0, <1>9 DEF ScanDone, redisVars
  <1>10. CASE Claim(w)
    BY <1>0, <1>10 DEF Claim, Brpoplpush, RedisTypeOK
  <1>11. CASE Reject(w) \/ NotFound(w) \/ Duplicate(w) \/ Mark(w) \/ LockBusy(w)
    BY <1>0, <1>11 DEF Reject, NotFound, Duplicate, Mark, LockBusy, redisVars
  <1>12. CASE LockAcquired(w)
    BY <1>0, <1>12 DEF LockAcquired, SetNx
  <1>13. CASE \E r \in {"ok", "fail", "benign"} : JobReturns(w, r)
    BY <1>0, <1>13 DEF JobReturns, redisVars
  <1>14. CASE Release(w)
    BY <1>0, <1>14 DEF Release, LuaRelease
  <1>15. CASE HandleFailure(w)
    BY <1>0, <1>15 DEF HandleFailure, PushFailure, LpushQueue, LpushDead
  <1>16. CASE Ack(w)
    BY <1>0, <1>16 DEF Ack, Lrem, RedisTypeOK
  <1>17. CASE Unlease(w)
    BY <1>17 DEF Unlease, DelLease, Forget
  <1> QED
    BY <1>1, <1>2, <1>3, <1>4, <1>5, <1>6, <1>7, <1>8, <1>9, <1>10, <1>11, <1>12,
       <1>13, <1>14, <1>15, <1>16, <1>17 DEF WorkerStep

\* So do crashes and cancellations, when Redis does not raise.
LEMMA FaultFrame ==
  ASSUME "redis" \notin Faults, TypeOK, LeaseInv, NEW w \in Worker, Fault(w)
  PROVE  LeaseFrame(w)
  <1> USE DEF TypeOK, LocalTypeOK, LeaseFrame, Goto, Alive, PC
  <1>0. pc[w] \in Alive => lease[w] = TRUE
    BY DEF LeaseInv, LeaseHeld
  <1>1. CASE Crash(w)
    BY <1>1 DEF Crash, Forget, redisVars
  <1>2. CASE Stop(w)
    <2>1. /\ pc[w] \in Alive \cup {"new"}
          /\ pc'[w] \in {"unlease", "ack", "release"} /\ (pc[w] = "new" => pc'[w] = "unlease")
          /\ \A v \in Worker \ {w} : pc'[v] = pc[v] /\ target'[v] = target[v]
      BY <1>2 DEF Stop, Cancelled
    <2>2. /\ \A v \in Worker \ {w} : lease'[v] = lease[v]
          /\ pc[w] # "new" => lease' = lease
          /\ pc[w] = "new" => proc' = proc
      BY <1>2 DEF RedisTypeOK, SetLease, Stop, Cancelled, Unanswered, Rpop, LpushQueue, LpushDead, DelProcessing,
         Brpoplpush, PushFailure, Lrem, SetNx, LuaRelease, redisVars
    <2>3. \A v \in Worker : proc[v] = EmptyList /\ v # w => proc'[v] = EmptyList
      <3>1. \A v \in Worker, m \in Msg : proc[v] = EmptyList => proc[v][m] = 0
        BY EmptyHasNone
      <3>2. CASE Cancelled(w, "drain", \E m \in Msg : Rpop(target[w], m), "unlease")
        BY <3>1, <3>2 DEF Cancelled, Unanswered, Rpop, redisVars, RedisTypeOK
      <3>3. CASE Cancelled(w, "delete", DelProcessing(target[w]), "unlease")
        BY <3>3 DEF Cancelled, Unanswered, DelProcessing, redisVars, RedisTypeOK
      <3>4. CASE Cancelled(w, "idle", Brpoplpush(w), "unlease")
        BY <3>4 DEF Cancelled, Unanswered, Brpoplpush, redisVars, RedisTypeOK
      <3>5. CASE Cancelled(w, "ack", Lrem(w), "unlease")
        BY <3>5 DEF Cancelled, Unanswered, Lrem, redisVars, RedisTypeOK
      <3>6. CASE UNCHANGED proc
        BY <3>6
      <3> QED
        BY <1>2, <3>2, <3>3, <3>4, <3>5, <3>6
        DEF Stop, Cancelled, Unanswered, SetLease, LpushQueue, LpushDead, PushFailure, SetNx,
            LuaRelease, redisVars
    <2> QED
      BY <1>0, <2>1, <2>2, <2>3
  <1>3. CASE RedisError(w)
    BY <1>3 DEF RedisError, Raises
  <1> QED BY <1>1, <1>2, <1>3 DEF Fault

\* The lease invariant is inductive when no lease runs out under a live worker.
LEMMA LeaseStep ==
  ASSUME "redis" \notin Faults, "slow_lease" \notin Faults,
         TypeOK, LeaseInv, [Next]_vars
  PROVE  LeaseInv'
  <1> USE DEF LeaseInv, LeaseHeld, UnstartedEmpty, TargetStarted, LeaseProtects, TargetDrained
  <1>1. CASE \E i \in Id : Publish(i)
    BY <1>1 DEF Publish, LpushQueue, localVars
  <1>2. CASE \E w \in Worker : WorkerStep(w)
    BY <1>2, WorkerStepFrame, FrameKeepsLease, NextType
  <1>3. CASE \E w \in Worker : Fault(w)
    BY <1>3, FaultFrame, FrameKeepsLease, NextType
  <1>4. CASE \E j \in Job : LockExpires(j)
    BY <1>4 DEF LockExpires, localVars
  <1>5. CASE \E w \in Worker : LeaseExpires(w)
    BY <1>5 DEF LeaseExpires, localVars, Alive, TypeOK, RedisTypeOK
  <1>6. CASE \E w \in Worker, i \in Id : DedupExpires(w, i)
    BY <1>6 DEF DedupExpires, redisVars
  <1>7. CASE UNCHANGED vars
    BY <1>7 DEF vars, redisVars, localVars
  <1> QED
    BY <1>1, <1>2, <1>3, <1>4, <1>5, <1>6, <1>7 DEF Next

\* The lease invariant holds initially.
LEMMA LeaseInit == Init => LeaseInv
  BY DEF Init, LeaseInv, LeaseHeld, UnstartedEmpty, TargetStarted, LeaseProtects,
     TargetDrained, Alive

\* The orphan recovery never drains or deletes the list of a consuming worker,
\* provided no Redis call raises and no job outlasts the lease; crashes, also in
\* the middle of a recovery, and graceful stops are allowed.
THEOREM LeaseSafe ==
  ASSUME "redis" \notin Faults, "slow_lease" \notin Faults
  PROVE  Spec => []LeaseProtects
  <1>1. TypeOK /\ LeaseInv /\ [Next]_vars => LeaseInv'
    BY LeaseStep
  <1>2. LeaseInv => LeaseProtects
    BY DEF LeaseInv
  <1> QED
    BY <1>1, <1>2, LeaseInit, TypeCorrect, PTL DEF Spec
-----------------------------------------------------------------------------
(* At-least-once delivery. An acknowledgement removes a copy, so a worker about *)
(* to acknowledge a message nobody has counted must have a later attempt of it  *)
(* on its way: the requeued one, or one that came of it.                        *)

\* A later attempt of m is held somewhere, or the message is dead-lettered.
Later(m) ==
  InDead(m.id) \/ \E n \in Msg : n.id = m.id /\ n.attempt > m.attempt /\ Held(n)

AckInv == \A w \in Worker : pc[w] = "ack" => log[cur[w].id] # {} \/ Later(cur[w])
ReleaseInv ==
  \A w \in Worker : pc[w] = "release" => outcome[w] = "fail" \/ log[cur[w].id] # {}

LossInv == NoLoss /\ AckInv /\ ReleaseInv

\* A step loses nothing when every copy stays, or is acknowledged by Ack.
Keeps ==
  /\ \A m \in Msg : Held(m) => Held(m)'
  /\ dead \subseteq dead'
  /\ \A i \in Id : log[i] # {} => log'[i] # {}

\* LPUSH keeps what is queued and adds its argument.
LEMMA PushKeeps ==
  ASSUME queue \in Seq(Msg), NEW x \in Msg, queue' = Append(queue, x)
  PROVE  InQueue(x)' /\ \A m \in Msg : InQueue(m) => InQueue(m)'
  <1>1. Len(queue') = Len(queue) + 1 /\ queue'[Len(queue) + 1] = x
    OBVIOUS
  <1>2. \A k \in 1..Len(queue) : queue'[k] = queue[k] /\ k \in 1..Len(queue')
    OBVIOUS
  <1>3. Len(queue) \in Nat
    OBVIOUS
  <1>4. Len(queue) + 1 \in 1..Len(queue')
    BY <1>1, <1>3
  <1>5. InQueue(x)'
    BY <1>1, <1>4 DEF InQueue
  <1>6. \A m \in Msg : InQueue(m) => InQueue(m)'
    BY <1>2 DEF InQueue
  <1> QED BY <1>5, <1>6

\* BRPOPLPUSH removes the head only.
LEMMA PopKeeps ==
  ASSUME queue \in Seq(Msg), queue # <<>>, queue' = Tail(queue), NEW m \in Msg, InQueue(m)
  PROVE  m = Head(queue) \/ InQueue(m)'
  <1>1. PICK k \in 1..Len(queue) : queue[k] = m
    BY DEF InQueue
  <1>2. CASE k = 1
    BY <1>1, <1>2
  <1>3. CASE k # 1
    <2>1. Len(queue') = Len(queue) - 1 /\ k - 1 \in 1..(Len(queue) - 1)
      BY <1>3
    <2>2. queue'[k - 1] = m
      BY <1>1, <1>3, <2>1
    <2> QED BY <2>1, <2>2 DEF InQueue
  <1> QED BY <1>2, <1>3

\* What a step that keeps every copy owes the invariant: the new message of a
\* publisher, and the worker that enters "ack" or "release".
LEMMA KeepingStep ==
  ASSUME TypeOK, TypeOK', LossInv, Keeps,
         \A i \in pub' \ pub : HasCopy(i)',
         \A w \in Worker : pc'[w] = "ack" =>
            \/ pc[w] = "ack" /\ cur'[w] = cur[w]
            \/ log'[cur'[w].id] # {}
            \/ Later(cur[w])' /\ cur'[w] = cur[w],
         \A w \in Worker : pc'[w] = "release" =>
            \/ pc[w] = "release" /\ cur'[w] = cur[w] /\ outcome'[w] = outcome[w]
            \/ outcome'[w] = "fail" \/ log'[cur'[w].id] # {}
  PROVE  LossInv'
  <1>1. \A i \in Id : HasCopy(i) => HasCopy(i)'
    BY DEF HasCopy, InDead, Keeps
  <1>2. \A m \in Msg : Later(m) => Later(m)'
    BY DEF Later, InDead, Keeps
  <1>3. \A w \in Worker : pc[w] \in {"ack", "release"} => cur[w] \in Msg /\ cur[w].id \in Id
    BY DEF TypeOK, HandTypeOK, Handling, Msg
  <1>4. NoLoss'
    BY <1>1 DEF LossInv, NoLoss, Keeps, TypeOK, HistTypeOK
  <1>5. AckInv'
    <2> SUFFICES ASSUME NEW w \in Worker, pc'[w] = "ack"
                 PROVE  \/ log'[cur'[w].id] # {}
                        \/ Later(cur[w])' /\ cur'[w] = cur[w]
      BY DEF AckInv, Later
    <2>1. CASE pc[w] = "ack" /\ cur'[w] = cur[w]
      BY <1>2, <1>3, <2>1 DEF LossInv, AckInv, Keeps
    <2> QED BY <2>1
  <1>6. ReleaseInv'
    BY <1>3 DEF LossInv, ReleaseInv, Keeps
  <1> QED BY <1>4, <1>5, <1>6 DEF LossInv

\* What a step of worker w leaves alone of the other workers.
OthersKeep(w) == \A v \in Worker \ {w} : pc'[v] = pc[v] /\ cur'[v] = cur[v]

\* A step that moves no message keeps every copy.
LEMMA QuietHeld ==
  ASSUME NEW w \in Worker, UNCHANGED <<queue, proc>>, pc[w] # "repush", OthersKeep(w)
  PROVE  \A m \in Msg : Held(m) => Held(m)'
  <1>1. \A m \in Msg : InQueue(m) => InQueue(m)'
    BY DEF InQueue
  <1>2. \A m \in Msg : InProcessing(m) => InProcessing(m)'
    BY DEF InProcessing
  <1>3. \A m \in Msg : InHand(m) => InHand(m)'
    BY DEF InHand, OthersKeep
  <1> QED BY <1>1, <1>2, <1>3 DEF Held

\* _claim_message moves the head of the queue to the worker's own list.
LEMMA ClaimHeld ==
  ASSUME TypeOK, NEW w \in Worker, Claim(w)
  PROVE  \A m \in Msg : Held(m) => Held(m)'
  <1> USE DEF TypeOK, RedisTypeOK, LocalTypeOK
  <1>1. queue # <<>> /\ queue' = Tail(queue) /\ Head(queue) \in Msg
    BY HeadIsMsg DEF Claim, Brpoplpush
  <1>2. proc' = [proc EXCEPT ![w][Head(queue)] = @ + 1]
    BY DEF Claim, Brpoplpush
  <1>3. \A m \in Msg : InProcessing(m) => InProcessing(m)'
    BY <1>1, <1>2 DEF InProcessing
  <1>4. \A m \in Msg : m = Head(queue) => InProcessing(m)'
    <2> SUFFICES ASSUME NEW m \in Msg, m = Head(queue) PROVE \E v \in Worker : proc'[v][m] > 0
      BY DEF InProcessing
    <2>1. proc'[w][m] = proc[w][m] + 1 /\ proc[w][m] \in Nat
      BY <1>2
    <2> QED BY <2>1
  <1>5. \A m \in Msg : InQueue(m) => m = Head(queue) \/ InQueue(m)'
    BY <1>1, PopKeeps
  <1>6. \A m \in Msg : InHand(m) => InHand(m)'
    BY DEF InHand, Claim, Goto
  <1> QED BY <1>3, <1>4, <1>5, <1>6 DEF Held

\* The recovery's RPOP moves a message from an orphan's list to the hand.
LEMMA RecoverPopHeld ==
  ASSUME TypeOK, NEW w \in Worker, NEW x \in Msg, RecoverPop(w, x)
  PROVE  \A m \in Msg : Held(m) => Held(m)'
  <1> USE DEF TypeOK, RedisTypeOK, LocalTypeOK
  <1>1. \A m \in Msg : InQueue(m) => InQueue(m)'
    BY DEF InQueue, RecoverPop, Rpop
  <1>2. \A m \in Msg : InHand(m) => InHand(m)'
    BY DEF InHand, RecoverPop, Goto
  <1>3. \A m \in Msg : m = x => InHand(m)'
    BY DEF InHand, RecoverPop, Goto
  <1>4. \A m \in Msg : InProcessing(m) => m = x \/ InProcessing(m)'
    <2> SUFFICES ASSUME NEW m \in Msg, NEW v \in Worker, proc[v][m] > 0, m # x
                 PROVE  proc'[v][m] = proc[v][m]
      BY DEF InProcessing
    <2>1. proc' = [proc EXCEPT ![target[w]][x] = @ - 1] /\ target[w] \in Worker
      BY DEF RecoverPop, Rpop
    <2> QED BY <2>1
  <1> QED BY <1>1, <1>2, <1>3, <1>4 DEF Held

\* Its LPUSH moves the message in hand to the queue.
LEMMA RecoverPushHeld ==
  ASSUME TypeOK, NEW w \in Worker, RecoverPush(w)
  PROVE  \A m \in Msg : Held(m) => Held(m)'
  <1> USE DEF TypeOK, RedisTypeOK, LocalTypeOK
  <1>1. cur[w] \in Msg /\ queue' = Append(queue, cur[w]) /\ proc' = proc
    BY DEF RecoverPush, LpushQueue, HandTypeOK
  <1>2. \A m \in Msg : InQueue(m) => InQueue(m)'
    BY <1>1, PushKeeps
  <1>3. \A m \in Msg : m = cur[w] => InQueue(m)'
    BY <1>1, PushKeeps
  <1>4. \A m \in Msg : InHand(m) => m = cur[w] \/ InHand(m)'
    BY DEF InHand, RecoverPush, Goto
  <1>5. \A m \in Msg : InProcessing(m) => InProcessing(m)'
    BY <1>1 DEF InProcessing
  <1> QED BY <1>2, <1>3, <1>4, <1>5 DEF Held

\* Its DEL removes a list that is empty.
LEMMA RecoverDeleteHeld ==
  ASSUME TypeOK, LeaseInv, NEW w \in Worker, RecoverDelete(w)
  PROVE  \A m \in Msg : Held(m) => Held(m)'
  <1> USE DEF TypeOK, RedisTypeOK, LocalTypeOK
  <1>1. proc[target[w]] = EmptyList
    BY DEF RecoverDelete, LeaseInv, TargetDrained
  <1>2. proc' = proc
    BY <1>1 DEF RecoverDelete, DelProcessing
  <1> QED
    BY <1>2, QuietHeld DEF RecoverDelete, DelProcessing, OthersKeep, Goto

\* _handle_failure pushes the next attempt or dead-letters the message.
LEMMA HandleFailureHeld ==
  ASSUME TypeOK, NEW w \in Worker, HandleFailure(w)
  PROVE  /\ \A m \in Msg : Held(m) => Held(m)'
         /\ Later(cur[w])'
         /\ dead \subseteq dead'
  <1> USE DEF TypeOK, RedisTypeOK, LocalTypeOK
  <1>1. cur[w] \in Msg /\ cur' = cur /\ proc' = proc /\ pc[w] = "failing"
    BY DEF HandleFailure, HandTypeOK, Handling, PushFailure, LpushQueue, LpushDead
  <1>2. \A m \in Msg : InHand(m) => InHand(m)'
    BY DEF InHand, HandleFailure, Goto
  <1>3. \A m \in Msg : InProcessing(m) => InProcessing(m)'
    BY <1>1 DEF InProcessing
  <1>4. CASE cur[w].attempt < MaxRetries
    <2> DEFINE n == [cur[w] EXCEPT !.attempt = @ + 1]
    <2>1. n \in Msg /\ queue' = Append(queue, n) /\ dead' = dead
      BY <1>1, <1>4, NextAttempt DEF HandleFailure, PushFailure, LpushQueue
    <2>2. n.id = cur[w].id /\ n.attempt > cur[w].attempt
      BY <1>1, RetriesAssumption DEF Msg
    <2>3. \A m \in Msg : InQueue(m) => InQueue(m)'
      BY <2>1, PushKeeps
    <2>4. \A m \in Msg : m = n => InQueue(m)'
      BY <2>1, PushKeeps
    <2>5. \E m \in Msg : m.id = cur'[w].id /\ m.attempt > cur'[w].attempt /\ Held(m)'
      BY <1>1, <2>1, <2>2, <2>4 DEF Held
    <2>6. Later(cur[w])'
      BY <2>5 DEF Later
    <2> QED BY <1>2, <1>3, <2>1, <2>3, <2>6 DEF Held
  <1>5. CASE ~ (cur[w].attempt < MaxRetries)
    <2>1. queue' = queue /\ dead' = dead \cup {cur[w]}
      BY <1>5 DEF HandleFailure, PushFailure, LpushDead
    <2>2. \A m \in Msg : InQueue(m) => InQueue(m)'
      BY <2>1 DEF InQueue
    <2>3. Later(cur[w])'
      BY <1>1, <2>1 DEF Later, InDead
    <2> QED BY <1>2, <1>3, <2>1, <2>2, <2>3 DEF Held
  <1> QED BY <1>4, <1>5

\* The acknowledgement removes a copy of the message in hand and no other.
LEMMA AckHeld ==
  ASSUME TypeOK, NEW w \in Worker, Ack(w)
  PROVE  \A m \in Msg : Held(m) => m = cur[w] \/ Held(m)'
  <1> USE DEF TypeOK, RedisTypeOK, LocalTypeOK
  <1>1. \A m \in Msg : InQueue(m) => InQueue(m)'
    BY DEF InQueue, Ack, Lrem
  <1>2. \A m \in Msg : InHand(m) => InHand(m)'
    BY DEF InHand, Ack, Goto
  <1>3. \A m \in Msg : InProcessing(m) => m = cur[w] \/ InProcessing(m)'
    <2> SUFFICES ASSUME NEW m \in Msg, NEW v \in Worker, proc[v][m] > 0, m # cur[w]
                 PROVE  proc'[v][m] = proc[v][m]
      BY DEF InProcessing
    <2>1. proc' = [proc EXCEPT ![w][cur[w]] = IF @ > 0 THEN @ - 1 ELSE 0]
      BY DEF Ack, Lrem
    <2> QED BY <2>1
  <1> QED BY <1>1, <1>2, <1>3 DEF Held

\* It loses nothing: what it removes was counted or has a later attempt, which
\* also stands in for the removed copy wherever that was somebody's later attempt.
LEMMA AckLosesNothing ==
  ASSUME TypeOK, LossInv, NEW w \in Worker, Ack(w)
  PROVE  LossInv'
  <1>1. cur[w] \in Msg /\ pc[w] = "ack"
    BY DEF Ack, TypeOK, HandTypeOK, Handling
  <1>2. log' = log /\ dead' = dead /\ pub' = pub
    BY DEF Ack, Lrem, histVars
  <1>3. log[cur[w].id] # {} \/ Later(cur[w])
    BY <1>1 DEF LossInv, AckInv
  <1>4. \A m \in Msg : m.id = cur[w].id /\ m.attempt > cur[w].attempt /\ Held(m) => Held(m)'
    BY <1>1, AckHeld DEF Msg
  <1>5. \A i \in Id : InDead(i) => InDead(i)'
    BY <1>2 DEF InDead
  <1>6. NoLoss'
    <2> SUFFICES ASSUME NEW i \in pub, log[i] = {} PROVE HasCopy(i)'
      BY <1>2 DEF NoLoss
    <2>1. HasCopy(i) /\ i \in Id
      BY DEF LossInv, NoLoss, TypeOK, HistTypeOK
    <2>2. CASE InDead(i)
      BY <1>5, <2>1, <2>2 DEF HasCopy
    <2>3. CASE i = cur[w].id /\ ~ InDead(i)
      BY <1>3, <1>4, <2>3 DEF Later, HasCopy
    <2>4. CASE i # cur[w].id
      BY <1>5, <2>1, <2>4, AckHeld DEF HasCopy
    <2> QED BY <2>2, <2>3, <2>4
  <1>7. AckInv'
    <2> SUFFICES ASSUME NEW v \in Worker, pc'[v] = "ack", log[cur'[v].id] = {}
                 PROVE  Later(cur[v])'
      BY <1>2 DEF AckInv
    <2>1. v # w /\ pc[v] = "ack" /\ cur'[v] = cur[v] /\ cur[v] \in Msg
      BY DEF Ack, Goto, TypeOK, LocalTypeOK, HandTypeOK, Handling
    <2>2. Later(cur[v])
      BY <2>1 DEF LossInv, AckInv
    <2>3. CASE InDead(cur[v].id)
      BY <1>2, <2>1, <2>3 DEF Later, InDead
    <2>4. CASE \E n \in Msg : n.id = cur[v].id /\ n.attempt > cur[v].attempt /\ Held(n)
      <3> PICK n \in Msg : n.id = cur[v].id /\ n.attempt > cur[v].attempt /\ Held(n)
        BY <2>4
      <3>1. CASE n # cur[w]
        <4>1. Held(n)'
          BY <3>1, AckHeld
        <4> QED BY <2>1, <4>1 DEF Later
      <3>2. CASE n = cur[w]
        <4>1. Later(cur[w])
          BY <1>3, <2>1, <3>2
        <4>2. CASE InDead(cur[w].id)
          BY <1>2, <2>1, <3>2, <4>2 DEF Later, InDead
        <4>3. CASE \E x \in Msg : x.id = cur[w].id /\ x.attempt > cur[w].attempt /\ Held(x)
          <5> PICK x \in Msg : x.id = cur[w].id /\ x.attempt > cur[w].attempt /\ Held(x)
            BY <4>3
          <5>1. x.id = cur[v].id /\ x.attempt > cur[v].attempt
            BY <1>1, <2>1, <3>2, RetriesAssumption DEF Msg
          <5>2. Held(x)'
            BY <1>4
          <5> QED BY <2>1, <5>1, <5>2 DEF Later
        <4> QED BY <4>1, <4>2, <4>3 DEF Later
      <3> QED BY <3>1, <3>2
    <2> QED BY <2>2, <2>3, <2>4 DEF Later
  <1>8. ReleaseInv'
    BY <1>2 DEF ReleaseInv, LossInv, Ack, Goto, TypeOK, LocalTypeOK
  <1> QED BY <1>6, <1>7, <1>8 DEF LossInv

\* A step that moves no message and enters neither "ack" nor "release".
LEMMA QuietStep ==
  ASSUME TypeOK, TypeOK', LossInv, NEW w \in Worker, OthersKeep(w),
         UNCHANGED <<queue, proc, dead, pub, log>>, pc[w] # "repush",
         pc'[w] \notin {"ack", "release"},
         \A v \in Worker \ {w} : outcome'[v] = outcome[v]
  PROVE  LossInv'
  <1>1. Keeps
    BY QuietHeld DEF Keeps
  <1>2. \A v \in Worker : pc'[v] \in {"ack", "release"} =>
           pc[v] = pc'[v] /\ cur'[v] = cur[v] /\ outcome'[v] = outcome[v]
    BY DEF OthersKeep
  <1> QED BY <1>1, <1>2, KeepingStep

\* A step that moves no message and counts the one in hand.
LEMMA CountingStep ==
  ASSUME TypeOK, TypeOK', LossInv, NEW w \in Worker, OthersKeep(w),
         UNCHANGED <<queue, proc, dead, pub>>, pc[w] # "repush",
         \A i \in Id : log[i] \subseteq log'[i], log'[cur'[w].id] # {},
         \A v \in Worker \ {w} : outcome'[v] = outcome[v]
  PROVE  LossInv'
  <1>1. Keeps
    BY QuietHeld DEF Keeps
  <1>2. \A v \in Worker : v # w => pc[v] = pc'[v] /\ cur'[v] = cur[v] /\ outcome'[v] = outcome[v]
    BY DEF OthersKeep
  <1>3. \A v \in Worker : pc'[v] = "ack" =>
            \/ pc[v] = "ack" /\ cur'[v] = cur[v]
            \/ log'[cur'[v].id] # {}
    BY <1>2
  <1>4. \A v \in Worker : pc'[v] = "release" =>
            \/ pc[v] = "release" /\ cur'[v] = cur[v] /\ outcome'[v] = outcome[v]
            \/ outcome'[v] = "fail" \/ log'[cur'[v].id] # {}
    BY <1>2
  <1> QED BY <1>1, <1>3, <1>4, KeepingStep

\* Recovery, claiming, handling: every step of a consumer but Ack, too, keeps
\* the invariant.
LEMMA WorkerLosesNothing ==
  ASSUME TypeOK, TypeOK', LeaseInv, LossInv, NEW w \in Worker, WorkerStep(w)
  PROVE  LossInv'
  <1> USE DEF Goto
  <1>0. pc \in [Worker -> PC] /\ cur \in [Worker -> Msg \cup {NoMsg}] /\ outcome \in [Worker -> Outcome]
    BY DEF TypeOK, LocalTypeOK
  <1>1. CASE Start(w)
    BY <1>0, <1>1, QuietStep DEF Start, SetLease, OthersKeep, histVars
  <1>2. CASE \E v \in Worker : ScanKey(w, v) \/ ScanPass(w, v)
    BY <1>0, <1>2, QuietStep DEF ScanKey, ScanPass, OthersKeep, histVars, redisVars
  <1>3. CASE CheckLease(w)
    <2>1. pc[w] = "check" /\ pc'[w] \in {"scan", "drain"} /\ OthersKeep(w)
      BY <1>0, <1>3 DEF CheckLease, OthersKeep
    <2> QED
      BY <1>3, <2>1, QuietStep DEF CheckLease, histVars, redisVars
  <1>4. CASE RecoverEmpty(w)
    BY <1>0, <1>4, QuietStep DEF RecoverEmpty, OthersKeep, histVars, redisVars
  <1>5. CASE ScanDone(w) \/ NotFound(w) \/ Mark(w)
    BY <1>0, <1>5, QuietStep
    DEF ScanDone, NotFound, Mark, OthersKeep, histVars, redisVars
  <1>6. CASE LockAcquired(w)
    BY <1>0, <1>6, QuietStep DEF LockAcquired, SetNx, OthersKeep
  <1>7. CASE Unlease(w)
    BY <1>0, <1>7, QuietStep DEF Unlease, DelLease, OthersKeep, histVars
  <1>8. CASE Reject(w) \/ Duplicate(w) \/ LockBusy(w)
    <2>1. cur[w].id \in Id /\ cur' = cur /\ pc[w] \in {"claimed", "locking"}
      BY <1>8 DEF Reject, Duplicate, LockBusy, TypeOK, HandTypeOK, Handling, Msg
    <2>2. PICK e \in LogEntry : log' = [log EXCEPT ![cur[w].id] = @ \cup {e}]
      BY <1>8 DEF Reject, Duplicate, LockBusy, Record, LogEntry
    <2>3. (\A i \in Id : log[i] \subseteq log'[i]) /\ log'[cur'[w].id] # {}
      BY <2>1, <2>2 DEF TypeOK, HistTypeOK
    <2>4. OthersKeep(w) /\ UNCHANGED <<queue, proc, dead, pub, outcome>>
      BY <1>0, <1>8 DEF Reject, Duplicate, LockBusy, OthersKeep, redisVars
    <2> QED BY <2>1, <2>3, <2>4, CountingStep
  <1>9. CASE \E r \in {"ok", "fail", "benign"} : JobReturns(w, r)
    <2> PICK r \in {"ok", "fail", "benign"} : JobReturns(w, r)
      BY <1>9
    <2>1. cur[w].id \in Id /\ cur' = cur /\ pc[w] = "running" /\ pc'[w] = "release"
      BY <1>0 DEF JobReturns, TypeOK, HandTypeOK, Handling, Msg
    <2>2. OthersKeep(w) /\ \A v \in Worker \ {w} : outcome'[v] = outcome[v]
      BY <1>0 DEF JobReturns, OthersKeep
    <2>3. UNCHANGED <<queue, proc, dead, pub>>
      BY DEF JobReturns, redisVars
    <2>4. CASE r = "fail"
      <3>1. log' = log /\ outcome'[w] = "fail"
        BY <1>0, <2>4 DEF JobReturns
      <3>2. Keeps
        BY <2>1, <2>2, <2>3, <3>1, QuietHeld DEF Keeps
      <3> QED
        BY <2>1, <2>2, <2>3, <3>1, <3>2, KeepingStep DEF OthersKeep
    <2>5. CASE r # "fail"
      <3>1. PICK e \in LogEntry : log' = [log EXCEPT ![cur[w].id] = @ \cup {e}]
        BY <2>5 DEF JobReturns, Record, LogEntry
      <3>2. (\A i \in Id : log[i] \subseteq log'[i]) /\ log'[cur'[w].id] # {}
        BY <2>1, <3>1 DEF TypeOK, HistTypeOK
      <3> QED BY <2>1, <2>2, <2>3, <3>2, CountingStep
    <2> QED BY <2>4, <2>5
  <1>10. CASE Release(w)
    <2>1. /\ pc[w] = "release" /\ cur' = cur /\ outcome' = outcome
          /\ UNCHANGED <<queue, proc, dead, pub, log>> /\ OthersKeep(w)
          /\ pc'[w] = IF outcome[w] = "fail" THEN "failing" ELSE "ack"
      BY <1>0, <1>10 DEF Release, LuaRelease, OthersKeep, histVars
    <2>2. CASE outcome[w] = "fail"
      BY <2>1, <2>2, QuietStep
    <2>3. CASE outcome[w] # "fail"
      <3>1. log[cur[w].id] # {}
        BY <2>1, <2>3 DEF LossInv, ReleaseInv
      <3> QED BY <2>1, <3>1, CountingStep
    <2> QED BY <2>2, <2>3
  <1>11. CASE Claim(w)
    <2>1. Keeps /\ pub' = pub
      BY <1>11, ClaimHeld DEF Keeps, Claim, Brpoplpush, histVars
    <2> QED
      BY <1>0, <1>11, <2>1, KeepingStep DEF Claim
  <1>12. CASE \E m \in Msg : RecoverPop(w, m)
    <2>1. Keeps /\ pub' = pub
      BY <1>12, RecoverPopHeld DEF Keeps, RecoverPop, Rpop, histVars
    <2> QED
      BY <1>0, <1>12, <2>1, KeepingStep DEF RecoverPop
  <1>13. CASE RecoverPush(w)
    <2>1. Keeps /\ pub' = pub
      BY <1>13, RecoverPushHeld DEF Keeps, RecoverPush, LpushQueue, histVars
    <2> QED
      BY <1>0, <1>13, <2>1, KeepingStep DEF RecoverPush
  <1>14. CASE RecoverDelete(w)
    <2>1. Keeps /\ pub' = pub
      BY <1>14, RecoverDeleteHeld DEF Keeps, RecoverDelete, DelProcessing, histVars
    <2> QED
      BY <1>0, <1>14, <2>1, KeepingStep DEF RecoverDelete
  <1>15. CASE HandleFailure(w)
    <2>1. Keeps /\ pub' = pub /\ Later(cur[w])'
      BY <1>15, HandleFailureHeld DEF Keeps, HandleFailure, histVars
    <2> QED
      BY <1>0, <1>15, <2>1, KeepingStep DEF HandleFailure
  <1>16. CASE Ack(w)
    BY <1>16, AckLosesNothing
  <1> QED
    BY <1>1, <1>2, <1>3, <1>4, <1>5, <1>6, <1>7, <1>8, <1>9, <1>10, <1>11, <1>12,
       <1>13, <1>14, <1>15, <1>16 DEF WorkerStep

\* A fresh message enters the queue.
LEMMA PublishLosesNothing ==
  ASSUME TypeOK, TypeOK', LossInv, NEW i \in Id, Publish(i)
  PROVE  LossInv'
  <1> DEFINE x == [id |-> i, attempt |-> 1]
  <1>1. x \in Msg /\ queue' = Append(queue, x) /\ queue \in Seq(Msg)
    BY RetriesAssumption DEF Publish, LpushQueue, Msg, TypeOK, RedisTypeOK
  <1>2. UNCHANGED <<proc, dead, pc, cur, outcome, log>> /\ pub' = pub \cup {i}
    BY DEF Publish, LpushQueue, localVars
  <1> HIDE DEF x
  <1>3. InQueue(x)' /\ \A m \in Msg : InQueue(m) => InQueue(m)'
    BY <1>1, PushKeeps
  <1>4. Keeps
    BY <1>2, <1>3 DEF Keeps, Held, InProcessing, InHand
  <1>5. HasCopy(i)'
    BY <1>1, <1>3 DEF HasCopy, Held, x
  <1> QED BY <1>2, <1>4, <1>5, KeepingStep

\* A crash outside the recovery's RPOP..LPUSH gap takes no message along.
LEMMA CrashLosesNothing ==
  ASSUME "recovery_crash" \notin Faults, TypeOK, TypeOK', LossInv, NEW w \in Worker, Crash(w)
  PROVE  LossInv'
  BY QuietStep DEF Crash, OthersKeep, Goto, redisVars, histVars, TypeOK, LocalTypeOK

\* The invariant is inductive when stop() is not called, no call raises and no
\* lease runs out under a job.
LEMMA LossStep ==
  ASSUME Faults \cap {"stop", "redis", "recovery_crash", "slow_lease"} = {},
         TypeOK, TypeOK', LeaseInv, LossInv, [Next]_vars
  PROVE  LossInv'
  <1>1. CASE \E i \in Id : Publish(i)
    BY <1>1, PublishLosesNothing
  <1>2. CASE \E w \in Worker : WorkerStep(w)
    BY <1>2, WorkerLosesNothing
  <1>3. CASE \E w \in Worker : Fault(w)
    <2> PICK w \in Worker : Fault(w)
      BY <1>3
    <2>1. Crash(w)
      BY DEF Fault, Stop, Cancelled, RedisError, Raises
    <2> QED BY <2>1, CrashLosesNothing
  <1>4. CASE UNCHANGED <<queue, proc, dead, pc, cur, outcome, pub, log>>
    <2>1. \A m \in Msg : Held(m) => Held(m)'
      BY <1>4 DEF Held, InQueue, InProcessing, InHand
    <2> QED BY <1>4, <2>1, KeepingStep DEF Keeps
  <1> QED
    BY <1>1, <1>2, <1>3, <1>4
    DEF Next, LockExpires, LeaseExpires, DedupExpires, localVars, redisVars, histVars, vars

\* At-least-once delivery for every number of messages, workers and retries:
\* crashes at any point outside the recovery's RPOP..LPUSH gap, leaked locks,
\* outlasted locks and benign-marker failures never lose an uncounted message.
THEOREM NothingLost ==
  ASSUME Faults \cap {"stop", "redis", "recovery_crash", "slow_lease"} = {}
  PROVE  Spec => []NoLoss
  <1>1. Init => LossInv
    BY DEF Init, LossInv, NoLoss, AckInv, ReleaseInv
  <1>2. TypeOK /\ LeaseInv /\ [Next]_vars => LeaseInv'
    BY LeaseStep
  <1>3. TypeOK /\ TypeOK' /\ LeaseInv /\ LossInv /\ [Next]_vars => LossInv'
    BY LossStep
  <1>4. LossInv => NoLoss
    BY DEF LossInv
  <1> QED
    BY <1>1, <1>2, <1>3, <1>4, LeaseInit, TypeCorrect, PTL DEF Spec
-----------------------------------------------------------------------------
(* The retry budget. Wherever a message of a known job is, every attempt before *)
(* its own was run, and past job.run() its own was run too; so the last attempt *)
(* of a dead-lettered message was the last of all of them.                      *)

Late == {"running", "release", "failing"}

Earlier(m) ==
  JobOf[m.id] \in Registered =>
    \A k \in 1..MaxRetries : k < m.attempt => [id |-> m.id, attempt |-> k] \in ran
Attempted(m) == JobOf[m.id] \in Registered => m \in ran

HeldRan == \A m \in Msg : Held(m) => Earlier(m)
HandRan == \A w \in Worker, m \in Msg : pc[w] \in Handling /\ cur[w] = m => Earlier(m)
LateRan == \A w \in Worker, m \in Msg : pc[w] \in Late /\ cur[w] = m => Attempted(m)
DeadRan == \A m \in dead : m.attempt = MaxRetries /\ Earlier(m) /\ Attempted(m)

RanInv == HeldRan /\ HandRan /\ LateRan /\ DeadRan

\* Where the messages of the next state come from.
Pushed(m) ==
  \E v \in Worker : /\ pc[v] = "failing" /\ cur[v] \in Msg
                    /\ cur[v].attempt < MaxRetries
                    /\ m = [cur[v] EXCEPT !.attempt = @ + 1]
Spent(m) ==
  \E v \in Worker : pc[v] = "failing" /\ cur[v] = m /\ ~ (m.attempt < MaxRetries)

QueueFrom ==
  \A m \in Msg : InQueue(m)' \/ InProcessing(m)' => Held(m) \/ m.attempt = 1 \/ Pushed(m)
DeadFrom == \A m \in dead' : m \in dead \/ Spent(m)
CurFrom ==
  \A w \in Worker, m \in Msg : cur'[w] = m =>
    /\ pc'[w] = "repush" => Held(m)
    /\ pc'[w] \in Handling => Held(m) \/ (pc[w] \in Handling /\ cur[w] = m)
    /\ pc'[w] \in Late =>
         (pc[w] \in Late /\ cur[w] = m) \/ m \in ran' \/ JobOf[m.id] \notin Registered

\* A step whose messages come from there keeps the invariant.
LEMMA RanStep ==
  ASSUME TypeOK, TypeOK', RanInv, ran \subseteq ran', QueueFrom, DeadFrom, CurFrom
  PROVE  RanInv'
  <1>1. \A m \in Msg : Earlier(m) => Earlier(m)'
    BY DEF Earlier
  <1>2. \A m \in Msg : Attempted(m) => Attempted(m)'
    BY DEF Attempted
  <1>3. \A m \in Msg : Held(m) => Earlier(m)'
    BY <1>1 DEF RanInv, HeldRan
  <1>4. \A m \in Msg : Pushed(m) => Earlier(m)'
    <2> SUFFICES ASSUME NEW n \in Msg, NEW v \in Worker, pc[v] = "failing", cur[v] \in Msg,
                        n = [cur[v] EXCEPT !.attempt = @ + 1], JobOf[n.id] \in Registered,
                        NEW k \in 1..MaxRetries, k < n.attempt
                 PROVE  [id |-> n.id, attempt |-> k] \in ran
      BY DEF Pushed, Earlier
    <2>1. n.id = cur[v].id /\ n.attempt = cur[v].attempt + 1 /\ cur[v].attempt \in 1..MaxRetries
      BY DEF Msg
    <2>2. Earlier(cur[v]) /\ cur[v] \in ran
      BY <2>1 DEF RanInv, HandRan, LateRan, Handling, Late, Attempted
    <2>3. CASE k < cur[v].attempt
      BY <2>1, <2>2, <2>3 DEF Earlier
    <2>4. CASE k = cur[v].attempt
      <3>1. [id |-> n.id, attempt |-> k] = cur[v]
        BY <2>1, <2>4 DEF Msg
      <3> QED BY <2>2, <3>1
    <2> QED BY <2>1, <2>3, <2>4, RetriesAssumption
  <1>5. \A m \in Msg : m.attempt = 1 => Earlier(m)'
    BY RetriesAssumption DEF Earlier
  <1>6. HeldRan'
    <2> SUFFICES ASSUME NEW m \in Msg, Held(m)' PROVE Earlier(m)'
      BY DEF HeldRan
    <2>1. CASE InHand(m)'
      BY <1>3, <2>1 DEF InHand, CurFrom
    <2>2. CASE InQueue(m)' \/ InProcessing(m)'
      BY <1>3, <1>4, <1>5, <2>2 DEF QueueFrom
    <2> QED BY <2>1, <2>2 DEF Held
  <1>7. HandRan'
    <2> SUFFICES ASSUME NEW w \in Worker, NEW m \in Msg, pc'[w] \in Handling, cur'[w] = m
                 PROVE  Earlier(m)'
      BY DEF HandRan
    <2> QED BY <1>1, <1>3 DEF CurFrom, RanInv, HandRan
  <1>8. LateRan'
    <2> SUFFICES ASSUME NEW w \in Worker, NEW m \in Msg, pc'[w] \in Late, cur'[w] = m
                 PROVE  Attempted(m)'
      BY DEF LateRan
    <2> QED BY <1>2 DEF CurFrom, RanInv, LateRan, Attempted
  <1>9. DeadRan'
    <2> SUFFICES ASSUME NEW m \in dead' PROVE m.attempt = MaxRetries /\ Earlier(m)' /\ Attempted(m)'
      BY DEF DeadRan
    <2>0. m \in Msg
      BY DEF TypeOK, RedisTypeOK
    <2>1. CASE m \in dead
      BY <1>1, <1>2, <2>0, <2>1 DEF RanInv, DeadRan
    <2>2. CASE Spent(m)
      <3>1. Earlier(m) /\ Attempted(m)
        BY <2>0, <2>2 DEF Spent, RanInv, HandRan, LateRan, Handling, Late
      <3>2. m.attempt = MaxRetries
        BY <2>0, <2>2, RetriesAssumption DEF Spent, Msg
      <3> QED BY <1>1, <1>2, <2>0, <3>1, <3>2
    <2> QED BY <2>1, <2>2 DEF DeadFrom
  <1> QED BY <1>6, <1>7, <1>8, <1>9 DEF RanInv

\* LPUSH adds nothing but its argument.
LEMMA PushFrom ==
  ASSUME queue \in Seq(Msg), NEW x \in Msg, queue' = Append(queue, x), NEW m \in Msg, InQueue(m)'
  PROVE  m = x \/ InQueue(m)
  <1>1. PICK k \in 1..Len(queue') : queue'[k] = m
    BY DEF InQueue
  <1>2. Len(queue') = Len(queue) + 1 /\ queue'[Len(queue) + 1] = x /\ Len(queue) \in Nat
    OBVIOUS
  <1>3. CASE k = Len(queue) + 1
    BY <1>1, <1>2, <1>3
  <1>4. CASE k # Len(queue) + 1
    <2>1. k \in 1..Len(queue) /\ queue[k] = queue'[k]
      BY <1>1, <1>2, <1>4
    <2> QED BY <1>1, <2>1 DEF InQueue
  <1> QED BY <1>3, <1>4

\* BRPOPLPUSH hands out a queued message and adds none to the queue.
LEMMA PopFrom ==
  ASSUME queue \in Seq(Msg), queue # <<>>, queue' = Tail(queue)
  PROVE  /\ InQueue(Head(queue))
         /\ \A m \in Msg : InQueue(m)' => InQueue(m)
  <1>1. Len(queue) \in Nat /\ Len(queue) > 0 /\ Head(queue) = queue[1]
    OBVIOUS
  <1>2. InQueue(Head(queue))
    BY <1>1 DEF InQueue
  <1>3. ASSUME NEW m \in Msg, InQueue(m)' PROVE InQueue(m)
    <2>1. PICK k \in 1..Len(queue') : queue'[k] = m
      BY <1>3 DEF InQueue
    <2>2. k + 1 \in 1..Len(queue) /\ queue[k + 1] = queue'[k]
      BY <1>1, <2>1
    <2> QED BY <2>1, <2>2 DEF InQueue
  <1> QED BY <1>2, <1>3

\* A step that leaves queue, lists and dead letters alone.
LEMMA StillFrom ==
  ASSUME UNCHANGED <<queue, proc, dead>>
  PROVE  QueueFrom /\ DeadFrom
  BY DEF QueueFrom, DeadFrom, Held, InQueue, InProcessing

\* A step that only takes messages out of processing lists.
LEMMA ShrinkFrom ==
  ASSUME UNCHANGED <<queue, dead>>,
         \A v \in Worker, m \in Msg : proc'[v][m] > 0 => proc[v][m] > 0
  PROVE  QueueFrom /\ DeadFrom
  BY DEF QueueFrom, DeadFrom, Held, InQueue, InProcessing

\* Every Redis call of a consumer takes its messages from where they were held,
\* or pushes what _handle_failure pushes.
LEMMA CallFrom ==
  ASSUME TypeOK, NEW w \in Worker
  PROVE  /\ (SetLease(w) \/ DelLease(w) \/ SetNx(w) \/ LuaRelease(w) \/ UNCHANGED redisVars)
              => QueueFrom /\ DeadFrom
         /\ Brpoplpush(w) => QueueFrom /\ DeadFrom
         /\ \A v \in Worker, m \in Msg : Rpop(v, m) => QueueFrom /\ DeadFrom
         /\ \A v \in Worker : DelProcessing(v) => QueueFrom /\ DeadFrom
         /\ cur[w] \in Msg /\ Lrem(w) => QueueFrom /\ DeadFrom
         /\ pc[w] = "repush" /\ LpushQueue(cur[w]) => QueueFrom /\ DeadFrom
         /\ pc[w] = "failing" /\ PushFailure(w) => QueueFrom /\ DeadFrom
  <1> USE DEF TypeOK, RedisTypeOK, LocalTypeOK
  <1>1. SetLease(w) \/ DelLease(w) \/ SetNx(w) \/ LuaRelease(w) \/ UNCHANGED redisVars
          => QueueFrom /\ DeadFrom
    BY StillFrom DEF SetLease, DelLease, SetNx, LuaRelease, redisVars
  <1>2. ASSUME Brpoplpush(w) PROVE QueueFrom /\ DeadFrom
    <2>1. InQueue(Head(queue)) /\ \A m \in Msg : InQueue(m)' => InQueue(m)
      BY <1>2, PopFrom DEF Brpoplpush
    <2>2. ASSUME NEW m \in Msg, InProcessing(m)' PROVE InProcessing(m) \/ m = Head(queue)
      <3> PICK v \in Worker : proc'[v][m] > 0
        BY <2>2 DEF InProcessing
      <3>1. proc' = [proc EXCEPT ![w][Head(queue)] = @ + 1]
        BY <1>2 DEF Brpoplpush
      <3>2. m # Head(queue) => proc[v][m] = proc'[v][m]
        BY <3>1
      <3> QED BY <3>2 DEF InProcessing
    <2>3. dead' = dead
      BY <1>2 DEF Brpoplpush
    <2> QED BY <2>1, <2>2, <2>3 DEF QueueFrom, DeadFrom, Held
  <1>3. ASSUME NEW v \in Worker, NEW m \in Msg, Rpop(v, m) PROVE QueueFrom /\ DeadFrom
    <2>1. \A u \in Worker, n \in Msg : proc'[u][n] > 0 => proc[u][n] > 0
      BY <1>3 DEF Rpop
    <2> QED BY <1>3, <2>1, ShrinkFrom DEF Rpop
  <1>4. ASSUME NEW v \in Worker, DelProcessing(v) PROVE QueueFrom /\ DeadFrom
    <2>1. \A u \in Worker, n \in Msg : proc'[u][n] > 0 => proc[u][n] > 0
      BY <1>4 DEF DelProcessing, EmptyList
    <2> QED BY <1>4, <2>1, ShrinkFrom DEF DelProcessing
  <1>5. ASSUME cur[w] \in Msg, Lrem(w) PROVE QueueFrom /\ DeadFrom
    <2>1. \A u \in Worker, n \in Msg : proc'[u][n] > 0 => proc[u][n] > 0
      BY <1>5 DEF Lrem
    <2> QED BY <1>5, <2>1, ShrinkFrom DEF Lrem
  <1>6. ASSUME pc[w] = "repush", LpushQueue(cur[w]) PROVE QueueFrom /\ DeadFrom
    <2>1. cur[w] \in Msg /\ Held(cur[w])
      BY <1>6 DEF HandTypeOK, Held, InHand
    <2>2. \A m \in Msg : InQueue(m)' => m = cur[w] \/ InQueue(m)
      BY <1>6, <2>1, PushFrom DEF LpushQueue
    <2> QED
      BY <1>6, <2>1, <2>2 DEF LpushQueue, QueueFrom, DeadFrom, Held, InProcessing
  <1>7. ASSUME pc[w] = "failing", PushFailure(w) PROVE QueueFrom /\ DeadFrom
    <2>1. cur[w] \in Msg
      BY <1>7 DEF HandTypeOK, Handling
    <2>2. CASE cur[w].attempt < MaxRetries
      <3> DEFINE n == [cur[w] EXCEPT !.attempt = @ + 1]
      <3>1. n \in Msg /\ queue' = Append(queue, n) /\ UNCHANGED <<proc, dead>>
        BY <1>7, <2>1, <2>2, NextAttempt DEF PushFailure, LpushQueue
      <3>2. Pushed(n)
        BY <1>7, <2>1, <2>2 DEF Pushed
      <3> HIDE DEF n
      <3>3. \A m \in Msg : InQueue(m)' => m = n \/ InQueue(m)
        BY <3>1, PushFrom
      <3> QED BY <3>1, <3>2, <3>3 DEF QueueFrom, DeadFrom, Held, InProcessing
    <2>3. CASE ~ (cur[w].attempt < MaxRetries)
      BY <1>7, <2>1, <2>3
      DEF PushFailure, LpushDead, QueueFrom, DeadFrom, Spent, Held, InQueue, InProcessing
    <2> QED BY <2>2, <2>3
  <1> QED BY <1>1, <1>2, <1>3, <1>4, <1>5, <1>6, <1>7

\* A worker that keeps its message, or drops it, and gets no further into
\* dispatch than it was.
LEMMA CurKept ==
  ASSUME NEW w \in Worker, OthersKeep(w), TypeOK,
         cur'[w] = cur[w] \/ cur'[w] = NoMsg,
         pc'[w] \in Handling => pc[w] \in Handling,
         pc'[w] = "repush" => pc[w] = "repush",
         pc'[w] \in Late =>
           \/ pc[w] \in Late
           \/ cur'[w] \in ran' \/ JobOf[cur'[w].id] \notin Registered
  PROVE  CurFrom
  <1>1. NoMsg \notin Msg
    BY RetriesAssumption DEF NoMsg, Msg
  <1>2. ASSUME NEW v \in Worker, NEW m \in Msg, cur'[v] = m, v = w
        PROVE  /\ pc'[v] = "repush" => Held(m)
               /\ pc'[v] \in Handling => pc[v] \in Handling /\ cur[v] = m
               /\ pc'[v] \in Late =>
                    \/ pc[v] \in Late /\ cur[v] = m
                    \/ m \in ran' \/ JobOf[m.id] \notin Registered
    BY <1>1, <1>2 DEF Held, InHand
  <1>3. ASSUME NEW v \in Worker, NEW m \in Msg, cur'[v] = m, v # w
        PROVE  /\ pc'[v] = pc[v] /\ cur[v] = m
               /\ pc'[v] = "repush" => Held(m)
    BY <1>3 DEF OthersKeep, Held, InHand
  <1> QED BY <1>2, <1>3 DEF CurFrom

\* Every step of a consumer keeps the invariant.
LEMMA WorkerRan ==
  ASSUME TypeOK, TypeOK', RanInv, NEW w \in Worker, WorkerStep(w)
  PROVE  RanInv'
  <1> USE DEF Goto
  <1>0. /\ pc \in [Worker -> PC] /\ cur \in [Worker -> Msg \cup {NoMsg}]
        /\ target \in [Worker -> Worker]
        /\ pc[w] \in Handling \cup {"repush"} => cur[w] \in Msg
    BY DEF TypeOK, LocalTypeOK, HandTypeOK
  <1>1. CASE Start(w)
    <2>1. QueueFrom /\ DeadFrom
      BY <1>1, CallFrom DEF Start
    <2>2. CurFrom
      BY <1>0, <1>1, CurKept DEF Start, OthersKeep, Handling, Late
    <2> QED BY <1>1, <2>1, <2>2, RanStep DEF Start, histVars
  <1>2. CASE \E v \in Worker : ScanKey(w, v) \/ ScanPass(w, v)
    <2>1. QueueFrom /\ DeadFrom
      BY <1>2, CallFrom DEF ScanKey, ScanPass
    <2>2. CurFrom
      BY <1>0, <1>2, CurKept DEF ScanKey, ScanPass, OthersKeep, Handling, Late
    <2> QED BY <1>2, <2>1, <2>2, RanStep DEF ScanKey, ScanPass, histVars
  <1>3. CASE CheckLease(w)
    <2>1. QueueFrom /\ DeadFrom
      BY <1>3, CallFrom DEF CheckLease
    <2>2. pc'[w] \in {"scan", "drain"} /\ OthersKeep(w) /\ cur' = cur
      BY <1>0, <1>3 DEF CheckLease, OthersKeep
    <2>3. CurFrom
      BY <2>2, CurKept DEF Handling, Late
    <2> QED BY <1>3, <2>1, <2>3, RanStep DEF CheckLease, histVars
  <1>4. CASE RecoverEmpty(w) \/ ScanDone(w) \/ Mark(w) \/ NotFound(w)
    <2>1. QueueFrom /\ DeadFrom
      BY <1>4, CallFrom DEF RecoverEmpty, ScanDone, Mark, NotFound
    <2>2. CurFrom
      BY <1>0, <1>4, CurKept
      DEF RecoverEmpty, ScanDone, Mark, NotFound, OthersKeep, Handling, Late, JobIn
    <2> QED
      BY <1>4, <2>1, <2>2, RanStep DEF RecoverEmpty, ScanDone, Mark, NotFound, histVars
  <1>5. CASE Reject(w) \/ Duplicate(w) \/ LockBusy(w)
    <2>1. QueueFrom /\ DeadFrom
      BY <1>5, CallFrom DEF Reject, Duplicate, LockBusy
    <2>2. CurFrom
      BY <1>0, <1>5, CurKept DEF Reject, Duplicate, LockBusy, OthersKeep, Handling, Late
    <2> QED BY <1>5, <2>1, <2>2, RanStep DEF Reject, Duplicate, LockBusy
  <1>6. CASE LockAcquired(w)
    <2>1. QueueFrom /\ DeadFrom
      BY <1>6, CallFrom DEF LockAcquired
    <2>2. CurFrom
      BY <1>0, <1>6, CurKept DEF LockAcquired, OthersKeep, Handling, Late
    <2> QED BY <1>6, <2>1, <2>2, RanStep DEF LockAcquired
  <1>7. CASE \E r \in {"ok", "fail", "benign"} : JobReturns(w, r)
    <2>1. QueueFrom /\ DeadFrom
      BY <1>7, CallFrom DEF JobReturns
    <2>2. CurFrom
      BY <1>0, <1>7, CurKept DEF JobReturns, OthersKeep, Handling, Late
    <2> QED BY <1>7, <2>1, <2>2, RanStep DEF JobReturns
  <1>8. CASE Release(w)
    <2>1. QueueFrom /\ DeadFrom
      BY <1>8, CallFrom DEF Release
    <2>2. pc[w] = "release" /\ pc'[w] \in {"failing", "ack"} /\ OthersKeep(w) /\ cur' = cur
      BY <1>0, <1>8 DEF Release, OthersKeep
    <2>3. CurFrom
      BY <2>2, CurKept DEF Handling, Late
    <2> QED BY <1>8, <2>1, <2>3, RanStep DEF Release, histVars
  <1>9. CASE HandleFailure(w)
    <2>1. QueueFrom /\ DeadFrom
      BY <1>9, CallFrom DEF HandleFailure
    <2>2. CurFrom
      BY <1>0, <1>9, CurKept DEF HandleFailure, OthersKeep, Handling, Late
    <2> QED BY <1>9, <2>1, <2>2, RanStep DEF HandleFailure, histVars
  <1>10. CASE Ack(w)
    <2>1. QueueFrom /\ DeadFrom
      BY <1>0, <1>10, CallFrom DEF Ack, Handling
    <2>2. pc'[w] \in {"unlease", "idle"} /\ cur'[w] = NoMsg /\ OthersKeep(w)
      BY <1>0, <1>10 DEF Ack, OthersKeep
    <2>3. CurFrom
      BY <2>2, CurKept DEF Handling, Late
    <2> QED BY <1>10, <2>1, <2>3, RanStep DEF Ack, histVars
  <1>11. CASE Unlease(w)
    <2>1. QueueFrom /\ DeadFrom
      BY <1>11, CallFrom DEF Unlease
    <2>2. CurFrom
      BY <1>0, <1>11, CurKept DEF Unlease, OthersKeep, Handling, Late
    <2> QED BY <1>11, <2>1, <2>2, RanStep DEF Unlease, histVars
  <1>12. CASE RecoverPush(w)
    <2>1. QueueFrom /\ DeadFrom
      BY <1>12, CallFrom DEF RecoverPush
    <2>2. CurFrom
      BY <1>0, <1>12, CurKept DEF RecoverPush, OthersKeep, Handling, Late
    <2> QED BY <1>12, <2>1, <2>2, RanStep DEF RecoverPush, histVars
  <1>13. CASE RecoverDelete(w)
    <2>1. QueueFrom /\ DeadFrom
      BY <1>0, <1>13, CallFrom DEF RecoverDelete
    <2>2. CurFrom
      BY <1>0, <1>13, CurKept DEF RecoverDelete, OthersKeep, Handling, Late
    <2> QED BY <1>13, <2>1, <2>2, RanStep DEF RecoverDelete, histVars
  <1>14. CASE \E m \in Msg : RecoverPop(w, m)
    <2> PICK x \in Msg : RecoverPop(w, x)
      BY <1>14
    <2>1. QueueFrom /\ DeadFrom
      BY <1>0, CallFrom DEF RecoverPop
    <2>2. Held(x)
      BY <1>0 DEF RecoverPop, Rpop, Held, InProcessing
    <2>3. \A v \in Worker, m \in Msg : pc[v] = "repush" /\ cur[v] = m => Held(m)
      BY DEF Held, InHand
    <2>4. CurFrom
      BY <1>0, <2>2, <2>3 DEF RecoverPop, CurFrom, Handling, Late
    <2> QED BY <2>1, <2>4, RanStep DEF RecoverPop, histVars
  <1>15. CASE Claim(w)
    <2>1. QueueFrom /\ DeadFrom
      BY <1>15, CallFrom DEF Claim
    <2>2. Held(Head(queue)) /\ cur'[w] = Head(queue)
      BY <1>0, <1>15, PopFrom DEF Claim, Brpoplpush, Held, TypeOK, RedisTypeOK
    <2>3. \A v \in Worker, m \in Msg : pc[v] = "repush" /\ cur[v] = m => Held(m)
      BY DEF Held, InHand
    <2>4. CurFrom
      BY <1>0, <1>15, <2>2, <2>3 DEF Claim, CurFrom, Handling, Late
    <2> QED BY <1>15, <2>1, <2>4, RanStep DEF Claim, histVars
  <1> QED
    BY <1>1, <1>2, <1>3, <1>4, <1>5, <1>6, <1>7, <1>8, <1>9, <1>10, <1>11, <1>12,
       <1>13, <1>14, <1>15 DEF WorkerStep

\* So does a crash, a cancelled loop and a raising call.
LEMMA FaultRan ==
  ASSUME TypeOK, TypeOK', RanInv, NEW w \in Worker, Fault(w)
  PROVE  RanInv'
  <1> USE DEF Goto
  <1>0. /\ pc \in [Worker -> PC] /\ cur \in [Worker -> Msg \cup {NoMsg}]
        /\ target \in [Worker -> Worker]
        /\ pc[w] \in Handling \cup {"repush"} => cur[w] \in Msg
    BY DEF TypeOK, LocalTypeOK, HandTypeOK
  <1>1. CASE Crash(w)
    <2>1. QueueFrom /\ DeadFrom
      BY <1>1, CallFrom DEF Crash
    <2>2. CurFrom
      BY <1>0, <1>1, CurKept DEF Crash, OthersKeep, Handling, Late
    <2> QED BY <1>1, <2>1, <2>2, RanStep DEF Crash, histVars
  <1>2. CASE Stop(w)
    <2>1. QueueFrom /\ DeadFrom
      BY <1>0, <1>2, CallFrom DEF Stop, Cancelled, Unanswered, Handling
    <2>2. /\ pc'[w] \in {"unlease", "ack", "release"}
          /\ pc'[w] = "ack" => pc[w] \in Handling
          /\ pc'[w] = "release" => pc[w] = "running"
          /\ cur'[w] = cur[w] \/ cur'[w] = NoMsg
          /\ OthersKeep(w) /\ ran' = ran
      BY <1>0, <1>2 DEF Stop, Cancelled, OthersKeep, Handling, histVars
    <2>3. CurFrom
      BY <2>2, CurKept DEF Handling, Late
    <2> QED BY <2>1, <2>2, <2>3, RanStep
  <1>3. CASE RedisError(w)
    <2>1. QueueFrom /\ DeadFrom
      BY <1>0, <1>3, CallFrom DEF RedisError, Raises, Unanswered, Handling
    <2>2. /\ pc'[w] \in {"idle", "unlease", "ack", "failing", "stopped"}
          /\ pc'[w] = "ack" => pc[w] \in Handling
          /\ pc'[w] = "failing" => pc[w] = "release"
          /\ cur'[w] = cur[w] \/ cur'[w] = NoMsg
          /\ OthersKeep(w) /\ ran' = ran
      BY <1>0, <1>3 DEF RedisError, Raises, OthersKeep, Handling
    <2>3. CurFrom
      BY <2>2, CurKept DEF Handling, Late
    <2> QED BY <2>1, <2>2, <2>3, RanStep
  <1> QED BY <1>1, <1>2, <1>3 DEF Fault

\* The invariant is inductive under every fault.
LEMMA RanNext ==
  ASSUME TypeOK, TypeOK', RanInv, [Next]_vars
  PROVE  RanInv'
  <1>1. CASE \E i \in Id : Publish(i)
    <2> PICK i \in Id : Publish(i)
      BY <1>1
    <2> DEFINE x == [id |-> i, attempt |-> 1]
    <2>1. x \in Msg /\ x.attempt = 1 /\ queue' = Append(queue, x) /\ queue \in Seq(Msg)
      BY RetriesAssumption DEF Publish, LpushQueue, Msg, TypeOK, RedisTypeOK
    <2>2. UNCHANGED <<proc, dead, pc, cur, ran>>
      BY DEF Publish, LpushQueue, localVars
    <2> HIDE DEF x
    <2>3. \A m \in Msg : InQueue(m)' => m = x \/ InQueue(m)
      BY <2>1, PushFrom
    <2>4. QueueFrom /\ DeadFrom
      BY <2>1, <2>2, <2>3 DEF QueueFrom, DeadFrom, Held, InProcessing
    <2>5. CurFrom
      BY <2>2 DEF CurFrom, Held, InHand
    <2> QED BY <2>2, <2>4, <2>5, RanStep
  <1>2. CASE \E w \in Worker : WorkerStep(w)
    BY <1>2, WorkerRan
  <1>3. CASE \E w \in Worker : Fault(w)
    BY <1>3, FaultRan
  <1>4. CASE UNCHANGED <<queue, proc, dead, pc, cur, ran>>
    <2>1. CurFrom
      BY <1>4 DEF CurFrom, Held, InHand
    <2> QED BY <1>4, <2>1, StillFrom, RanStep
  <1> QED
    BY <1>1, <1>2, <1>3, <1>4
    DEF Next, LockExpires, LeaseExpires, DedupExpires, localVars, redisVars, histVars, vars

\* A dead-lettered message of a known job has had all of its attempts run, for
\* every number of retries and under every fault: copies made by the recovery,
\* repeated acknowledgements and interrupted requeues never skip an attempt.
THEOREM RetryBudget == Spec => []DeadMeansExhausted
  <1>1. Init => RanInv
    BY DEF Init, RanInv, HeldRan, HandRan, LateRan, DeadRan, Held, InQueue, InProcessing,
       InHand, EmptyList, Handling, Late
  <1>2. TypeOK /\ TypeOK' /\ RanInv /\ [Next]_vars => RanInv'
    BY RanNext
  <1>3. TypeOK /\ RanInv => DeadMeansExhausted
    <2> SUFFICES ASSUME TypeOK, RanInv, NEW m \in dead, JobOf[m.id] \in Registered,
                        NEW k \in 1..MaxRetries
                 PROVE  [id |-> m.id, attempt |-> k] \in ran
      BY DEF DeadMeansExhausted
    <2>1. m \in Msg /\ m.attempt = MaxRetries /\ Earlier(m) /\ m \in ran
      BY DEF RanInv, DeadRan, Attempted, TypeOK, RedisTypeOK
    <2>2. CASE k = MaxRetries
      <3>1. [id |-> m.id, attempt |-> k] = m
        BY <2>1, <2>2 DEF Msg
      <3> QED BY <2>1, <3>1
    <2>3. CASE k # MaxRetries
      BY <2>1, <2>3, RetriesAssumption DEF Earlier
    <2> QED BY <2>2, <2>3
  <1> QED
    BY <1>1, <1>2, <1>3, TypeCorrect, PTL DEF Spec
-----------------------------------------------------------------------------
(* The lock a message meets. A lock is the trace of a worker that is inside the *)
(* try or died there; the first has its message in its own list, and the list   *)
(* of the second is left alone while its lease lasts, which the lock does not   *)
(* outlast.                                                                     *)

\* A worker handling a message has it in its processing list.
OwnCopy == \A w \in Worker : pc[w] \in Handling => proc[w][cur[w]] > 0

\* A list that is being drained has no lease any more.
Lapsed ==
  \A w \in Worker : pc[w] \in {"drain", "repush", "delete"} => lease[target[w]] = FALSE

\* Worker v, inside dispatch's try or dead with a lease, stands behind token i.
Guards(v, i) ==
  /\ \E m \in Msg : m.id = i /\ proc[v][m] > 0
  /\ \/ pc[v] \in Executing /\ cur[v].id = i
     \/ pc[v] = "crashed" /\ lease[v] = TRUE

\* Whoever set a lock stands behind it.
LockGuarded ==
  \A j \in Job : lock[j] # NoId =>
    JobOf[lock[j]] = j /\ \E v \in setter[j] : Guards(v, lock[j])

GuardInv == OwnCopy /\ Lapsed /\ LockGuarded

\* What a step of w leaves alone of the other workers: their memory, their
\* lease, and the list of one that is alive or has a lease.
Aloof(w) ==
  \A v \in Worker \ {w} :
    /\ pc'[v] = pc[v] /\ cur'[v] = cur[v] /\ lease'[v] = lease[v] /\ target'[v] = target[v]
    /\ pc[v] \in Alive \/ lease[v] = TRUE => proc'[v] = proc[v]

\* What it does to w itself.
OwnEffect(w) ==
  /\ pc'[w] \in Handling => proc'[w][cur'[w]] > 0
  /\ pc'[w] \in {"drain", "repush", "delete"} => lease'[target'[w]] = FALSE

\* What it does to the locks.
LockEffect(w) ==
  \/ /\ UNCHANGED <<lock, setter>>
     /\ pc[w] \in Executing =>
          /\ proc'[w] = proc[w]
          /\ \/ pc'[w] \in Executing /\ cur'[w] = cur[w]
             \/ pc'[w] = "crashed" /\ lease'[w] = TRUE
  \/ /\ pc[w] = "locking" /\ pc'[w] = "running" /\ cur'[w] = cur[w]
     /\ lock' = [lock EXCEPT ![JobIn(w)] = cur[w].id]
     /\ setter' = [setter EXCEPT ![JobIn(w)] = {w}]
  \/ /\ pc[w] = "release"
     /\ lock' = [lock EXCEPT ![JobIn(w)] = IF lock[JobIn(w)] = cur[w].id THEN NoId ELSE lock[JobIn(w)]]
     /\ setter' = [setter EXCEPT ![JobIn(w)] = IF lock[JobIn(w)] = cur[w].id THEN {} ELSE setter[JobIn(w)]]

\* Who may take a step: a running consumer, or one that gives up its lease.
Steps(w) ==
  \/ pc[w] \in Alive \cup {"new"}
  \/ pc[w] = "unlease" /\ (lease'[w] = lease[w] \/ lease'[w] = FALSE)

\* The three together keep the invariant.
LEMMA EffectsKeepGuards ==
  ASSUME TypeOK, TypeOK', LeaseInv, GuardInv, NEW w \in Worker,
         Steps(w), Aloof(w), OwnEffect(w), LockEffect(w)
  PROVE  GuardInv'
  <1>1. OwnCopy'
    <2> SUFFICES ASSUME NEW v \in Worker, pc'[v] \in Handling PROVE proc'[v][cur'[v]] > 0
      BY DEF OwnCopy
    <2>1. CASE v = w
      BY <2>1 DEF OwnEffect
    <2>2. CASE v # w
      <3>1. pc[v] \in Handling /\ pc[v] \in Alive
        BY <2>2 DEF Aloof, Handling, Alive, PC
      <3> QED BY <2>2, <3>1 DEF Aloof, GuardInv, OwnCopy
    <2> QED BY <2>1, <2>2
  <1>2. Lapsed'
    <2> SUFFICES ASSUME NEW v \in Worker, pc'[v] \in {"drain", "repush", "delete"}
                 PROVE  lease'[target'[v]] = FALSE
      BY DEF Lapsed
    <2>1. CASE v = w
      BY <2>1 DEF OwnEffect
    <2>2. CASE v # w
      <3>1. pc'[v] = pc[v] /\ target'[v] = target[v] /\ target[v] \in Worker
        BY <2>2 DEF Aloof, TypeOK, LocalTypeOK
      <3>2. pc[target[v]] \notin Alive /\ pc[target[v]] # "new"
        BY <3>1 DEF LeaseInv, LeaseProtects, TargetStarted
      <3>3. lease[target[v]] = FALSE
        BY <3>1 DEF GuardInv, Lapsed
      <3>4. lease'[target[v]] = lease[target[v]] \/ lease'[target[v]] = FALSE
        BY <3>1, <3>2 DEF Aloof, Steps
      <3> QED BY <3>1, <3>3, <3>4
    <2> QED BY <2>1, <2>2
  <1>3. \A v \in Worker \ {w}, i \in Id : Guards(v, i) => Guards(v, i)'
    <2> SUFFICES ASSUME NEW v \in Worker \ {w}, NEW i \in Id, Guards(v, i) PROVE Guards(v, i)'
      OBVIOUS
    <2>1. pc[v] \in Alive \/ lease[v] = TRUE
      BY DEF Guards, Executing, Alive, PC
    <2>2. proc'[v] = proc[v] /\ pc'[v] = pc[v] /\ cur'[v] = cur[v] /\ lease'[v] = lease[v]
      BY <2>1 DEF Aloof
    <2> QED BY <2>2 DEF Guards
  <1>4. \A i \in Id : Guards(w, i) => pc[w] \in Executing /\ cur[w].id = i
    BY DEF Guards, Alive, Steps
  <1>5. pc[w] \in Handling => cur[w] \in Msg
    BY DEF TypeOK, HandTypeOK
  <1>6. lock \in [Job -> Id \cup {NoId}] /\ setter \in [Job -> SUBSET Worker]
    BY DEF TypeOK, RedisTypeOK
  <1>7. ASSUME NEW j \in Job, lock[j] # NoId
        PROVE  lock[j] \in Id /\ JobOf[lock[j]] = j /\ \E v \in setter[j] : Guards(v, lock[j])
    BY <1>6, <1>7 DEF GuardInv, LockGuarded
  \* a lock that stays, and whose setter is not w or stands behind it still
  <1>a. ASSUME NEW j \in Job, lock'[j] # NoId, lock'[j] = lock[j], setter'[j] = setter[j],
               Guards(w, lock[j]) => Guards(w, lock[j])'
        PROVE  JobOf[lock'[j]] = j /\ \E v \in setter'[j] : Guards(v, lock[j])'
    <2>1. PICK v \in setter[j] : Guards(v, lock[j])
      BY <1>7, <1>a
    <2>2. lock[j] \in Id /\ JobOf[lock[j]] = j /\ v \in Worker
      BY <1>6, <1>7, <1>a
    <2>3. PICK i \in Id : i = lock[j] /\ i = lock'[j]
      BY <1>a, <2>2
    <2>4. Guards(v, i)'
      <3>1. CASE v = w
        <4>1. Guards(w, lock[j])'
          BY <1>a, <2>1, <3>1
        <4> QED BY <2>3, <3>1, <4>1 DEF Guards
      <3>2. CASE v # w
        BY <1>3, <2>1, <2>2, <2>3, <3>2
      <3> QED BY <3>1, <3>2
    <2>5. Guards(v, lock[j])'
      BY <2>3, <2>4 DEF Guards
    <2> QED BY <1>a, <2>2, <2>5
  <1>b. ASSUME \A j \in Job : lock'[j] # NoId =>
                 JobOf[lock'[j]] = j /\ \E v \in setter'[j] : Guards(v, lock[j])'
        PROVE  GuardInv'
    <2>1. LockGuarded'
      BY <1>b DEF LockGuarded
    <2> QED BY <1>1, <1>2, <2>1 DEF GuardInv
  <1>8. CASE /\ UNCHANGED <<lock, setter>>
             /\ pc[w] \in Executing =>
                  /\ proc'[w] = proc[w]
                  /\ \/ pc'[w] \in Executing /\ cur'[w] = cur[w]
                     \/ pc'[w] = "crashed" /\ lease'[w] = TRUE
    <2>1. ASSUME NEW j \in Job, lock'[j] # NoId, Guards(w, lock[j]) PROVE Guards(w, lock[j])'
      <3>1. pc[w] \in Executing /\ cur[w].id = lock[j]
        BY <1>4, <1>7, <1>8, <2>1
      <3> QED BY <1>8, <2>1, <3>1 DEF Guards
    <2>2. ASSUME NEW j \in Job, lock'[j] # NoId
          PROVE  JobOf[lock'[j]] = j /\ \E v \in setter'[j] : Guards(v, lock[j])'
      BY <1>8, <1>a, <2>1, <2>2
    <2> QED BY <1>b, <2>2
  <1>9. CASE /\ pc[w] = "locking" /\ pc'[w] = "running" /\ cur'[w] = cur[w]
             /\ lock' = [lock EXCEPT ![JobIn(w)] = cur[w].id]
             /\ setter' = [setter EXCEPT ![JobIn(w)] = {w}]
    <2>1. cur[w] \in Msg /\ cur[w].id \in Id /\ JobIn(w) \in Job
      BY <1>5, <1>9, JobOfAssumption DEF Handling, Msg, JobIn
    <2>2. ASSUME NEW j \in Job, lock'[j] # NoId
          PROVE  JobOf[lock'[j]] = j /\ \E v \in setter'[j] : Guards(v, lock[j])'
      <3>1. CASE j = JobIn(w)
        <4>1. lock'[j] = cur[w].id /\ setter'[j] = {w} /\ cur'[w].id = lock'[j]
          BY <1>6, <1>9, <3>1
        <4>2. proc'[w][cur[w]] > 0
          BY <1>1, <1>9 DEF OwnCopy, Handling
        <4>3. Guards(w, lock[j])'
          BY <1>9, <2>1, <4>1, <4>2 DEF Guards, Executing
        <4> QED BY <3>1, <4>1, <4>3 DEF JobIn
      <3>2. CASE j # JobIn(w)
        <4>1. lock'[j] = lock[j] /\ setter'[j] = setter[j]
          BY <1>6, <1>9, <3>2
        <4>2. ~ Guards(w, lock[j])
          BY <1>4, <1>7, <1>9, <2>2, <4>1 DEF Executing
        <4> QED BY <1>a, <2>2, <4>1, <4>2
      <3> QED BY <3>1, <3>2
    <2> QED BY <1>b, <2>2
  <1>10. CASE /\ pc[w] = "release"
              /\ lock' = [lock EXCEPT ![JobIn(w)] =
                            IF lock[JobIn(w)] = cur[w].id THEN NoId ELSE lock[JobIn(w)]]
              /\ setter' = [setter EXCEPT ![JobIn(w)] =
                              IF lock[JobIn(w)] = cur[w].id THEN {} ELSE setter[JobIn(w)]]
    <2>1. ASSUME NEW j \in Job, lock'[j] # NoId
          PROVE  JobOf[lock'[j]] = j /\ \E v \in setter'[j] : Guards(v, lock[j])'
      <3>1. /\ lock'[j] = lock[j] /\ setter'[j] = setter[j]
            /\ j = JobIn(w) => lock[j] # cur[w].id
        BY <1>6, <1>10, <2>1
      <3>2. ~ Guards(w, lock[j])
        BY <1>4, <1>7, <2>1, <3>1 DEF JobIn
      <3> QED BY <1>a, <2>1, <3>1, <3>2
    <2> QED BY <1>b, <2>1
  <1> QED BY <1>8, <1>9, <1>10 DEF LockEffect

\* A step of w that leaves the lists and the leases of the others alone.
LEMMA AloofByKeeping ==
  ASSUME NEW w \in Worker, OthersKeep(w), LeaseFrame(w),
         \A v \in Worker \ {w} : proc'[v] = proc[v]
  PROVE  Aloof(w)
  BY DEF Aloof, OthersKeep, LeaseFrame

\* A step of w that touches no list and no lock, and does not start a drain.
LEMMA QuietGuard ==
  ASSUME TypeOK, GuardInv, NEW w \in Worker, LeaseFrame(w), OthersKeep(w),
         UNCHANGED <<proc, lock, setter>>,
         pc'[w] \notin {"drain", "repush", "delete"},
         pc[w] \in Executing => pc'[w] \in Executing,
         pc'[w] \in Handling => pc[w] \in Handling /\ cur'[w] = cur[w],
         pc[w] \in Handling => cur'[w] = cur[w]
  PROVE  Aloof(w) /\ OwnEffect(w) /\ LockEffect(w)
  <1>1. Aloof(w)
    BY AloofByKeeping
  <1>2. OwnEffect(w)
    BY DEF OwnEffect, GuardInv, OwnCopy
  <1>3. LockEffect(w)
    BY DEF LockEffect, Executing, Handling
  <1> QED BY <1>1, <1>2, <1>3

\* Every step of a consumer has one of the effects.
LEMMA WorkerEffects ==
  ASSUME TypeOK, LeaseInv, GuardInv, NEW w \in Worker, WorkerStep(w)
  PROVE  Aloof(w) /\ OwnEffect(w) /\ LockEffect(w)
  <1> USE DEF Goto
  <1>0. pc \in [Worker -> PC] /\ cur \in [Worker -> Msg \cup {NoMsg}] /\ target \in [Worker -> Worker]
    BY DEF TypeOK, LocalTypeOK
  <1>a. proc \in [Worker -> [Msg -> Nat]] /\ lease \in [Worker -> BOOLEAN] /\ queue \in Seq(Msg)
    BY DEF TypeOK, RedisTypeOK
  <1>b. LeaseFrame(w)
    BY WorkerStepFrame
  <1>c. OwnCopy /\ Lapsed
    BY DEF GuardInv
  <1>1. CASE Start(w)
    BY <1>0, <1>1, <1>b, QuietGuard DEF Start, SetLease, OthersKeep, Executing, Handling
  <1>2. CASE \E v \in Worker : ScanKey(w, v) \/ ScanPass(w, v)
    BY <1>0, <1>2, <1>b, QuietGuard DEF ScanKey, ScanPass, OthersKeep, redisVars, Executing, Handling
  <1>3. CASE CheckLease(w)
    <2>1. pc[w] = "check" /\ UNCHANGED <<proc, lock, setter, lease, cur>> /\ OthersKeep(w)
      BY <1>0, <1>3 DEF CheckLease, OthersKeep, redisVars
    <2>2. Aloof(w)
      BY <1>b, <2>1, AloofByKeeping
    <2>3. pc'[w] \in {"scan", "drain"} /\ (pc'[w] = "drain" => lease[target[w]] = FALSE /\ target' = target)
      BY <1>0, <1>3, <1>a DEF CheckLease
    <2>4. OwnEffect(w)
      BY <2>1, <2>3 DEF OwnEffect, Handling
    <2>5. LockEffect(w)
      BY <2>1 DEF LockEffect, Executing
    <2> QED BY <2>2, <2>4, <2>5
  <1>4. CASE \E m \in Msg : RecoverPop(w, m)
    <2> PICK m \in Msg : RecoverPop(w, m)
      BY <1>4
    <2>1. /\ pc[w] = "drain" /\ pc'[w] = "repush" /\ UNCHANGED <<lock, setter, lease, target>>
          /\ OthersKeep(w)
          /\ proc' = [proc EXCEPT ![target[w]][m] = @ - 1]
      BY <1>0 DEF RecoverPop, Rpop, OthersKeep
    <2>2. lease[target[w]] = FALSE /\ pc[target[w]] \notin Alive
      BY <1>c, <2>1 DEF Lapsed, LeaseInv, LeaseProtects
    <2>3. \A v \in Worker : pc[v] \in Alive \/ lease[v] = TRUE => proc'[v] = proc[v]
      BY <1>a, <2>1, <2>2
    <2>4. Aloof(w)
      BY <2>1, <2>3 DEF Aloof, OthersKeep
    <2>5. OwnEffect(w)
      BY <2>1, <2>2 DEF OwnEffect, Handling
    <2>6. LockEffect(w)
      BY <2>1 DEF LockEffect, Executing
    <2> QED BY <2>4, <2>5, <2>6
  <1>5. CASE RecoverEmpty(w) \/ RecoverPush(w)
    <2>1. /\ pc[w] \in {"drain", "repush"} /\ pc'[w] \in {"drain", "delete"}
          /\ UNCHANGED <<proc, lock, setter, lease, target>> /\ OthersKeep(w)
      BY <1>0, <1>5 DEF RecoverEmpty, RecoverPush, LpushQueue, OthersKeep, redisVars
    <2>2. lease[target[w]] = FALSE
      BY <1>c, <2>1 DEF Lapsed
    <2>3. Aloof(w)
      BY <1>b, <2>1, AloofByKeeping
    <2>4. OwnEffect(w)
      BY <2>1, <2>2 DEF OwnEffect, Handling
    <2>5. LockEffect(w)
      BY <2>1 DEF LockEffect, Executing
    <2> QED BY <2>3, <2>4, <2>5
  <1>6. CASE RecoverDelete(w)
    <2>1. /\ pc[w] = "delete" /\ pc'[w] = "scan" /\ UNCHANGED <<lock, setter, lease>> /\ OthersKeep(w)
          /\ proc' = [proc EXCEPT ![target[w]] = EmptyList]
      BY <1>0, <1>6 DEF RecoverDelete, DelProcessing, OthersKeep
    <2>2. lease[target[w]] = FALSE /\ pc[target[w]] \notin Alive
      BY <1>c, <2>1 DEF Lapsed, LeaseInv, LeaseProtects
    <2>3. \A v \in Worker : pc[v] \in Alive \/ lease[v] = TRUE => proc'[v] = proc[v]
      BY <1>a, <2>1, <2>2
    <2>4. Aloof(w)
      BY <1>b, <2>1, <2>3 DEF Aloof, OthersKeep, LeaseFrame
    <2>5. OwnEffect(w)
      BY <2>1 DEF OwnEffect, Handling
    <2>6. LockEffect(w)
      BY <2>1 DEF LockEffect, Executing
    <2> QED BY <2>4, <2>5, <2>6
  <1>7. CASE ScanDone(w) \/ Unlease(w)
    BY <1>0, <1>7, <1>b, QuietGuard
    DEF ScanDone, Unlease, DelLease, OthersKeep, redisVars, Executing, Handling
  <1>8. CASE Claim(w)
    <2>1. /\ pc[w] = "idle" /\ pc'[w] = "claimed" /\ UNCHANGED <<lock, setter>> /\ OthersKeep(w)
          /\ cur'[w] = Head(queue) /\ Head(queue) \in Msg
          /\ proc' = [proc EXCEPT ![w][Head(queue)] = @ + 1]
      BY <1>0, <1>8, <1>a, HeadIsMsg DEF Claim, Brpoplpush, OthersKeep
    <2>2. PICK m \in Msg : m = Head(queue)
      BY <2>1
    <2>3. proc'[w][m] = proc[w][m] + 1 /\ proc[w][m] \in Nat
      BY <1>a, <2>1, <2>2
    <2>4. \A v \in Worker \ {w} : proc'[v] = proc[v]
      BY <1>a, <2>1
    <2>5. Aloof(w)
      BY <1>b, <2>1, <2>4, AloofByKeeping
    <2>6. OwnEffect(w)
      BY <2>1, <2>2, <2>3 DEF OwnEffect
    <2>7. LockEffect(w)
      BY <2>1 DEF LockEffect, Executing
    <2> QED BY <2>5, <2>6, <2>7
  <1>9. CASE Reject(w) \/ NotFound(w) \/ Duplicate(w) \/ Mark(w) \/ LockBusy(w)
    BY <1>0, <1>9, <1>b, QuietGuard
    DEF Reject, NotFound, Duplicate, Mark, LockBusy, OthersKeep, redisVars, Executing, Handling
  <1>10. CASE LockAcquired(w)
    <2>1. /\ pc[w] = "locking" /\ pc'[w] = "running" /\ cur' = cur /\ proc' = proc /\ OthersKeep(w)
          /\ lock[JobIn(w)] = NoId
          /\ lock' = [lock EXCEPT ![JobIn(w)] = IF @ = NoId THEN cur[w].id ELSE @]
          /\ setter' = [setter EXCEPT ![JobIn(w)] = IF lock[JobIn(w)] = NoId THEN {w} ELSE @]
      BY <1>0, <1>10 DEF LockAcquired, SetNx, OthersKeep
    <2>2. /\ lock' = [lock EXCEPT ![JobIn(w)] = cur[w].id]
          /\ setter' = [setter EXCEPT ![JobIn(w)] = {w}]
      BY <2>1
    <2>3. Aloof(w)
      BY <1>b, <2>1, AloofByKeeping
    <2>4. OwnEffect(w)
      BY <1>c, <2>1 DEF OwnEffect, OwnCopy, Handling
    <2>5. LockEffect(w)
      BY <2>1, <2>2 DEF LockEffect
    <2> QED BY <2>3, <2>4, <2>5
  <1>11. CASE \E r \in {"ok", "fail", "benign"} : JobReturns(w, r)
    <2>1. /\ pc[w] = "running" /\ pc'[w] = "release" /\ cur' = cur /\ OthersKeep(w)
          /\ UNCHANGED <<proc, lock, setter>>
      BY <1>0, <1>11 DEF JobReturns, OthersKeep, redisVars
    <2> QED BY <1>b, <2>1, QuietGuard DEF Executing, Handling
  <1>12. CASE Release(w)
    <2>1. /\ pc[w] = "release" /\ pc'[w] \in {"failing", "ack"} /\ cur' = cur /\ proc' = proc
          /\ OthersKeep(w)
          /\ lock' = [lock EXCEPT ![JobIn(w)] = IF lock[JobIn(w)] = cur[w].id THEN NoId
                                                ELSE lock[JobIn(w)]]
          /\ setter' = [setter EXCEPT ![JobIn(w)] = IF lock[JobIn(w)] = cur[w].id THEN {}
                                                    ELSE setter[JobIn(w)]]
      BY <1>0, <1>12 DEF Release, LuaRelease, OthersKeep
    <2>2. Aloof(w)
      BY <1>b, <2>1, AloofByKeeping
    <2>3. OwnEffect(w)
      BY <1>c, <2>1 DEF OwnEffect, OwnCopy, Handling
    <2>4. LockEffect(w)
      BY <2>1 DEF LockEffect
    <2> QED BY <2>2, <2>3, <2>4
  <1>13. CASE HandleFailure(w)
    <2>1. /\ pc[w] = "failing" /\ pc'[w] = "ack" /\ cur' = cur /\ OthersKeep(w)
          /\ UNCHANGED <<proc, lock, setter>>
      BY <1>0, <1>13 DEF HandleFailure, PushFailure, LpushQueue, LpushDead, OthersKeep
    <2> QED BY <1>b, <2>1, QuietGuard DEF Executing, Handling
  <1>14. CASE Ack(w)
    <2>1. /\ pc[w] = "ack" /\ pc'[w] \in {"unlease", "idle"} /\ UNCHANGED <<lock, setter>>
          /\ OthersKeep(w)
          /\ proc' = [proc EXCEPT ![w][cur[w]] = IF @ > 0 THEN @ - 1 ELSE 0]
      BY <1>0, <1>14 DEF Ack, Lrem, OthersKeep
    <2>2. \A v \in Worker \ {w} : proc'[v] = proc[v]
      BY <1>a, <2>1
    <2>3. Aloof(w)
      BY <1>b, <2>1, <2>2, AloofByKeeping
    <2>4. OwnEffect(w) /\ LockEffect(w)
      BY <2>1 DEF OwnEffect, LockEffect, Handling, Executing
    <2> QED BY <2>3, <2>4
  <1> QED
    BY <1>1, <1>2, <1>3, <1>4, <1>5, <1>6, <1>7, <1>8, <1>9, <1>10, <1>11, <1>12, <1>13, <1>14
    DEF WorkerStep

\* A crash inside the try leaves the lock to a dead worker with a lease.
LEMMA CrashEffects ==
  ASSUME TypeOK, LeaseInv, NEW w \in Worker, Crash(w)
  PROVE  Steps(w) /\ Aloof(w) /\ OwnEffect(w) /\ LockEffect(w)
  <1>0. pc \in [Worker -> PC] /\ cur \in [Worker -> Msg \cup {NoMsg}] /\ target \in [Worker -> Worker]
    BY DEF TypeOK, LocalTypeOK
  <1>1. /\ pc[w] \in Alive \cup {"unlease"} /\ pc'[w] = "crashed"
        /\ UNCHANGED <<proc, lease, lock, setter>>
        /\ OthersKeep(w) /\ \A v \in Worker \ {w} : target'[v] = target[v]
    BY <1>0 DEF Crash, Goto, Forget, redisVars, OthersKeep
  <1>2. pc[w] \in Executing => lease[w] = TRUE
    BY DEF LeaseInv, LeaseHeld, Executing, Alive, PC
  <1>3. Aloof(w)
    BY <1>1 DEF Aloof, OthersKeep
  <1>4. OwnEffect(w)
    BY <1>1 DEF OwnEffect, Handling
  <1>5. LockEffect(w)
    BY <1>1, <1>2 DEF LockEffect
  <1> QED BY <1>1, <1>3, <1>4, <1>5 DEF Steps

\* The lock's TTL runs out.
LEMMA LockExpiryGuard ==
  ASSUME TypeOK, GuardInv, NEW j \in Job, LockExpires(j)
  PROVE  GuardInv'
  <1>1. /\ lock' = [lock EXCEPT ![j] = NoId] /\ setter' = [setter EXCEPT ![j] = {}]
        /\ UNCHANGED <<proc, lease, pc, cur, target>>
    BY DEF LockExpires, localVars
  <1>2. OwnCopy' /\ Lapsed'
    BY <1>1 DEF GuardInv, OwnCopy, Lapsed
  <1>4. lock \in [Job -> Id \cup {NoId}] /\ setter \in [Job -> SUBSET Worker]
    BY DEF TypeOK, RedisTypeOK
  <1>5. ASSUME NEW k \in Job, lock'[k] # NoId
        PROVE  JobOf[lock'[k]] = k /\ \E v \in setter'[k] : Guards(v, lock[k])'
    <2>1. lock'[k] = lock[k] /\ setter'[k] = setter[k]
      BY <1>1, <1>4, <1>5
    <2>2. JobOf[lock[k]] = k /\ \E v \in setter[k] : Guards(v, lock[k])
      BY <1>5, <2>1 DEF GuardInv, LockGuarded
    <2>3. PICK v \in setter[k] : Guards(v, lock[k])
      BY <2>2
    <2>4. Guards(v, lock[k])'
      BY <1>1, <2>1, <2>3 DEF Guards
    <2> QED BY <2>1, <2>2, <2>4
  <1>6. LockGuarded'
    BY <1>5 DEF LockGuarded
  <1> QED BY <1>2, <1>6 DEF GuardInv

\* A lease runs out, after any lock the same worker has set.
LEMMA LeaseExpiryGuard ==
  ASSUME "slow_lease" \notin Faults, TypeOK, GuardInv, NEW w \in Worker, LeaseExpires(w)
  PROVE  GuardInv'
  <1>1. /\ lease' = [lease EXCEPT ![w] = FALSE] /\ UNCHANGED <<proc, lock, setter, pc, cur, target>>
        /\ ~ LeftLock(w)
    BY DEF LeaseExpires, localVars
  <1>2. /\ lease \in [Worker -> BOOLEAN] /\ target \in [Worker -> Worker]
        /\ setter \in [Job -> SUBSET Worker]
    BY DEF TypeOK, RedisTypeOK, LocalTypeOK
  <1>3. OwnCopy'
    BY <1>1 DEF GuardInv, OwnCopy
  <1>4. Lapsed'
    BY <1>1, <1>2 DEF GuardInv, Lapsed
  <1>5. ASSUME NEW j \in Job, lock'[j] # NoId
        PROVE  JobOf[lock'[j]] = j /\ \E v \in setter'[j] : Guards(v, lock[j])'
    <2>1. JobOf[lock[j]] = j /\ \E v \in setter[j] : Guards(v, lock[j])
      BY <1>1, <1>5 DEF GuardInv, LockGuarded
    <2>2. PICK v \in setter[j] : Guards(v, lock[j])
      BY <2>1
    <2>3. v \in Worker /\ v # w
      BY <1>1, <1>2, <2>2 DEF LeftLock
    <2>4. lease'[v] = lease[v]
      BY <1>1, <1>2, <2>3
    <2>5. Guards(v, lock[j])'
      BY <1>1, <2>2, <2>4 DEF Guards
    <2> QED BY <1>1, <2>1, <2>5
  <1>6. LockGuarded'
    BY <1>5 DEF LockGuarded
  <1> QED BY <1>3, <1>4, <1>6 DEF GuardInv

\* The invariant is inductive.
LEMMA GuardStep ==
  ASSUME Faults \cap {"stop", "redis", "slow_lease"} = {},
         TypeOK, TypeOK', LeaseInv, GuardInv, [Next]_vars
  PROVE  GuardInv'
  <1>1. CASE \E w \in Worker : WorkerStep(w)
    <2> PICK w \in Worker : WorkerStep(w)
      BY <1>1
    <2>1. Steps(w)
      <3>1. pc[w] = "unlease" => Unlease(w)
        BY DEF WorkerStep, Start, ScanKey, ScanPass, CheckLease, RecoverPop, RecoverEmpty, RecoverPush,
               RecoverDelete, ScanDone, Claim, Reject, NotFound, Duplicate, Mark, LockAcquired,
               LockBusy, JobReturns, Release, HandleFailure, Ack
      <3>2. Unlease(w) => lease'[w] = FALSE
        BY DEF Unlease, DelLease, TypeOK, RedisTypeOK
      <3> QED BY <3>1, <3>2, WorkerStepFrame DEF LeaseFrame, Steps
    <2> QED BY <2>1, WorkerEffects, EffectsKeepGuards
  <1>2. CASE \E w \in Worker : Fault(w)
    <2> PICK w \in Worker : Fault(w)
      BY <1>2
    <2>1. Crash(w)
      BY DEF Fault, Stop, Cancelled, RedisError, Raises
    <2> QED BY <2>1, CrashEffects, EffectsKeepGuards
  <1>3. CASE \E j \in Job : LockExpires(j)
    BY <1>3, LockExpiryGuard
  <1>4. CASE \E w \in Worker : LeaseExpires(w)
    BY <1>4, LeaseExpiryGuard
  <1>5. CASE UNCHANGED <<proc, lease, lock, setter, pc, cur, target>>
    <2>1. OwnCopy' /\ Lapsed'
      BY <1>5 DEF GuardInv, OwnCopy, Lapsed
    <2>2. LockGuarded'
      BY <1>5 DEF GuardInv, LockGuarded, Guards
    <2> QED BY <2>1, <2>2 DEF GuardInv
  <1>6. \/ \E w \in Worker : WorkerStep(w) \/ Fault(w) \/ LeaseExpires(w)
        \/ \E j \in Job : LockExpires(j)
        \/ UNCHANGED <<proc, lease, lock, setter, pc, cur, target>>
    BY DEF Next, Publish, LpushQueue, DedupExpires, localVars, redisVars, vars
  <1> QED BY <1>1, <1>2, <1>3, <1>4, <1>5, <1>6

\* "Lock not acquired" never drops the only copy of a message because of the
\* lock its own dead worker left: whoever set a lock with the message's id still
\* has a copy in its processing list. Crashes at any point, jobs that outlast the
\* lock and misread failures are allowed.
THEOREM SkippedHasCopy ==
  ASSUME Faults \cap {"stop", "redis", "slow_lease"} = {}
  PROVE  Spec => []SkipLeavesCopy
  <1>1. Init => GuardInv
    BY DEF Init, GuardInv, OwnCopy, Lapsed, LockGuarded, Handling
  <1>2. TypeOK /\ LeaseInv /\ [Next]_vars => LeaseInv'
    BY LeaseStep
  <1>3. TypeOK /\ TypeOK' /\ LeaseInv /\ GuardInv /\ [Next]_vars => GuardInv'
    BY GuardStep
  <1>4. TypeOK /\ GuardInv => SkipLeavesCopy
    <2> SUFFICES ASSUME TypeOK, GuardInv, NEW w \in Worker,
                        pc[w] = "locking", lock[JobIn(w)] = cur[w].id
                 PROVE  \E v \in Worker \ {w}, m \in Msg : m.id = cur[w].id /\ proc[v][m] > 0
      BY DEF SkipLeavesCopy
    <2>1. cur[w] \in Msg /\ cur[w].id \in Id /\ JobIn(w) \in Job
      BY JobOfAssumption DEF TypeOK, HandTypeOK, Handling, Msg, JobIn
    <2>2. PICK v \in setter[JobIn(w)] : Guards(v, cur[w].id)
      BY <2>1, IdAssumption DEF GuardInv, LockGuarded
    <2>a. v \in Worker
      BY <2>1, <2>2 DEF TypeOK, RedisTypeOK
    <2>3. v # w
      BY <2>2 DEF Guards, Executing
    <2> QED BY <2>2, <2>3, <2>a DEF Guards
  <1> QED
    BY <1>1, <1>2, <1>3, <1>4, LeaseInit, TypeCorrect, PTL DEF Spec
=============================================================================
