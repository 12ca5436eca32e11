------------------------------ MODULE JobQueue ------------------------------
(***************************************************************************)
(* The Redis job queue: schedulers LPUSH job messages (jobs/queue_publisher*)
(* .py), worker processes move them to a processing list of their own, run *)
(* them under a distributed lock and acknowledge, requeue or dead-letter   *)
(* them (jobs/queue_consumer.py, jobs/job_dispatcher.py, jobs/locking.py,  *)
(* jobs/deduplication.py).                                                 *)
(*                                                                         *)
(* One step is what a process does up to its next await on Redis or on the *)
(* job: the grain at which processes interleave, crash and get cancelled.  *)
(***************************************************************************)
EXTENDS Naturals, Sequences

CONSTANTS
  Id,          \* message ids (payload["job_id"])
  Job,         \* job names, each with one lock key job:<name>
  Worker,      \* worker process incarnations: the id is a fresh uuid4, so a
               \* restarted process is another member
  JobOf,       \* the job each message names
  KindOf,      \* how each message reads: well formed, wrong token, malformed
  Registered,  \* the jobs a worker's registry knows
  MaxRetries,  \* attempts before the dead-letter list (max_retries)
  MaxErrors,   \* bound: Redis calls that raise in one behaviour
  Faults,      \* what may go wrong in this instance
  NoId         \* "no message": a free lock, an empty hand

FaultKind ==
  {"crash",           \* a process dies (outside the recovery's RPOP..LPUSH gap)
   "recovery_crash",  \* it may also die inside that gap
   "stop",            \* JobQueueConsumer.stop() cancels the consume loop
   "redis",           \* a Redis call raises, its effect applied or not
   "marker",          \* a job fails with a text holding a benign marker
   "slow_lock",       \* a job may outlast the lock's TTL (300 s)
   "slow_lease"}      \* a job may outlast the worker's lease (600 s)

ASSUME IdAssumption == NoId \notin Id
ASSUME JobOfAssumption == JobOf \in [Id -> Job]
ASSUME KindAssumption == KindOf \in [Id -> {"job", "badtoken", "malformed"}]
ASSUME RegisteredAssumption == Registered \subseteq Job
ASSUME RetriesAssumption == MaxRetries \in Nat \ {0}
ASSUME ErrorsAssumption == MaxErrors \in Nat
ASSUME FaultsAssumption ==
  /\ Faults \subseteq FaultKind
  /\ "slow_lease" \in Faults => "slow_lock" \in Faults

VARIABLES
  \* ---- Redis ----
  queue,    \* the list job:queue; Append is LPUSH, Head is the end popped
  proc,     \* job:queue:processing:<w>, a bag of messages
  lease,    \* does job:queue:worker:<w> exist
  dead,     \* the messages of job:dead
  lock,     \* the owner token in job:<name>, NoId when the key is absent
  setter,   \* the process that set it, as a set, {} when the key is absent
  \* ---- one consumer per worker process ----
  pc,       \* where the consumer is
  cur,      \* the message in its hands
  outcome,  \* how the job in hand ended; "stop" once stop() cancelled the loop
  toScan,   \* processing lists the orphan recovery has yet to visit
  target,   \* the list it is visiting (w itself: none)
  dedup,    \* ids marked in the process's JobDeduplicator
  \* ---- history ----
  pub,      \* ids published
  ran,      \* attempts whose job.run() was entered
  log,      \* what the workers' counters recorded of each id
  errors    \* Redis calls that raised so far

redisVars == <<queue, proc, lease, dead, lock, setter>>
localVars == <<pc, cur, outcome, toScan, target, dedup>>
histVars == <<pub, ran, log, errors>>
vars == <<redisVars, localVars, histVars>>

Msg == [id : Id, attempt : 1..MaxRetries]
NoMsg == [id |-> NoId, attempt |-> 0]
EmptyList == [m \in Msg |-> 0]

PC == {"new", "scan", "check", "drain", "repush", "delete", "idle", "claimed",
       "locking", "running", "release", "failing", "ack", "unlease",
       "stopped", "crashed"}

\* A worker's consume loop runs.
Alive == PC \ {"new", "unlease", "stopped", "crashed"}

\* It holds a claimed message: the body of the loop's try ... finally.
Handling == {"claimed", "locking", "running", "release", "failing", "ack"}

\* It owns the lock: between SET NX and the end of the release.
Executing == {"running", "release"}

Outcome == {"none", "ok", "fail", "benign", "stop"}
LogEntry == {"ok", "lock", "dup", "marker", "reject"}

JobIn(w) == JobOf[cur[w].id]

Init ==
  /\ queue = <<>>
  /\ proc = [w \in Worker |-> EmptyList]
  /\ lease = [w \in Worker |-> FALSE]
  /\ dead = {}
  /\ lock = [j \in Job |-> NoId]
  /\ setter = [j \in Job |-> {}]
  /\ pc = [w \in Worker |-> "new"]
  /\ cur = [w \in Worker |-> NoMsg]
  /\ outcome = [w \in Worker |-> "none"]
  /\ toScan = [w \in Worker |-> {}]
  /\ target = [w \in Worker |-> w]
  /\ dedup = [w \in Worker |-> {}]
  /\ pub = {}
  /\ ran = {}
  /\ log = [i \in Id |-> {}]
  /\ errors = 0

-----------------------------------------------------------------------------
(* Redis calls, each atomic at the server; they leave the other keys alone. *)

\* SET job:queue:worker:<w> 1 EX lease_seconds
SetLease(w) ==
  /\ lease' = [lease EXCEPT ![w] = TRUE]
  /\ UNCHANGED <<queue, proc, dead, lock, setter>>

\* DEL job:queue:worker:<w>
DelLease(w) ==
  /\ lease' = [lease EXCEPT ![w] = FALSE]
  /\ UNCHANGED <<queue, proc, dead, lock, setter>>

\* LPUSH job:queue m
LpushQueue(m) ==
  /\ queue' = Append(queue, m)
  /\ UNCHANGED <<proc, lease, dead, lock, setter>>

\* LPUSH job:dead m
LpushDead(m) ==
  /\ dead' = dead \cup {m}
  /\ UNCHANGED <<queue, proc, lease, lock, setter>>

\* Mutant: a plain BRPOP, nothing kept in the processing list.
BrpopOnly(w) ==
  /\ queue # <<>>
  /\ queue' = Tail(queue)
  /\ UNCHANGED <<proc, lease, dead, lock, setter>>

\* BRPOPLPUSH job:queue job:queue:processing:<w>, when a message is there
Brpoplpush(w) ==
  /\ queue # <<>>
  /\ queue' = Tail(queue)
  /\ proc' = [proc EXCEPT ![w][Head(queue)] = @ + 1]
  /\ UNCHANGED <<lease, dead, lock, setter>>

\* LREM job:queue:processing:<w> 1 raw: one copy, or none if none is left
Lrem(w) ==
  /\ proc' = [proc EXCEPT ![w][cur[w]] = IF @ > 0 THEN @ - 1 ELSE 0]
  /\ UNCHANGED <<queue, lease, dead, lock, setter>>

\* RPOP of message m from job:queue:processing:<v>
Rpop(v, m) ==
  /\ proc[v][m] > 0
  /\ proc' = [proc EXCEPT ![v][m] = @ - 1]
  /\ UNCHANGED <<queue, lease, dead, lock, setter>>

\* DEL job:queue:processing:<v>
DelProcessing(v) ==
  /\ proc' = [proc EXCEPT ![v] = EmptyList]
  /\ UNCHANGED <<queue, lease, dead, lock, setter>>

\* SET job:<name> <job_id> NX PX ttl
SetNx(w) ==
  /\ lock' = [lock EXCEPT ![JobIn(w)] = IF @ = NoId THEN cur[w].id ELSE @]
  /\ setter' = [setter EXCEPT ![JobIn(w)] = IF lock[JobIn(w)] = NoId THEN {w} ELSE @]
  /\ UNCHANGED <<queue, proc, lease, dead>>

\* The compare-and-delete script: the token is the job id, not the process
LuaRelease(w) ==
  /\ lock' = [lock EXCEPT ![JobIn(w)] = IF @ = cur[w].id THEN NoId ELSE @]
  /\ setter' = [setter EXCEPT ![JobIn(w)] = IF lock[JobIn(w)] = cur[w].id THEN {} ELSE @]
  /\ UNCHANGED <<queue, proc, lease, dead>>

\* Mutants: one attempt too many, one too few, an attempt never counted.
PushFailureLate(w) ==
  IF cur[w].attempt <= MaxRetries
    THEN LpushQueue([cur[w] EXCEPT !.attempt = @ + 1])
    ELSE LpushDead(cur[w])

PushFailureEarly(w) ==
  IF cur[w].attempt + 1 < MaxRetries
    THEN LpushQueue([cur[w] EXCEPT !.attempt = @ + 1])
    ELSE LpushDead(cur[w])

PushFailureUncounted(w) ==
  IF cur[w].attempt < MaxRetries THEN LpushQueue(cur[w]) ELSE LpushDead(cur[w])

\* The call of _handle_failure: another attempt, or the dead-letter list
PushFailure(w) ==
  IF cur[w].attempt < MaxRetries
    THEN LpushQueue([cur[w] EXCEPT !.attempt = @ + 1])
    ELSE LpushDead(cur[w])

\* A call whose reply never arrives took effect or did not.
Unanswered(call) == call \/ UNCHANGED redisVars

-----------------------------------------------------------------------------
(* Steps. *)

Goto(w, label) == pc' = [pc EXCEPT ![w] = label]
Record(w, entry) == log' = [log EXCEPT ![cur[w].id] = @ \cup {entry}]

\* The memory of a process that ends.
Forget(w) ==
  /\ toScan' = [toScan EXCEPT ![w] = {}]
  /\ target' = [target EXCEPT ![w] = w]
  /\ dedup' = [dedup EXCEPT ![w] = {}]

\* JobQueuePublisher.publish: a fresh id, no "attempt" field (read as 1).
Publish(i) ==
  /\ i \notin pub
  /\ pub' = pub \cup {i}
  /\ LpushQueue([id |-> i, attempt |-> 1])
  /\ UNCHANGED <<localVars, ran, log, errors>>

\* start(): the loop takes the lease, then looks for orphans.
Start(w) ==
  /\ pc[w] = "new"
  /\ SetLease(w)
  /\ toScan' = [toScan EXCEPT ![w] = Worker \ {w}]
  /\ Goto(w, "scan")
  /\ UNCHANGED <<cur, outcome, target, dedup, histVars>>

\* SCAN returns the key of v: it exists now, its lease is looked up later.
ScanKey(w, v) ==
  /\ pc[w] = "scan"
  /\ v \in toScan[w]
  /\ proc[v] # EmptyList
  /\ toScan' = [toScan EXCEPT ![w] = @ \ {v}]
  /\ target' = [target EXCEPT ![w] = v]
  /\ Goto(w, "check")
  /\ UNCHANGED <<redisVars, cur, outcome, dedup, histVars>>

\* The cursor passes v's key while no such list exists.
ScanPass(w, v) ==
  /\ pc[w] = "scan"
  /\ v \in toScan[w]
  /\ proc[v] = EmptyList
  /\ toScan' = [toScan EXCEPT ![w] = @ \ {v}]
  /\ UNCHANGED <<redisVars, pc, cur, outcome, target, dedup, histVars>>

\* Mutants: the lease is not looked up; the looked-up lease is the worker's own.
CheckNothing(w) ==
  /\ pc[w] = "check"
  /\ Goto(w, "drain")
  /\ UNCHANGED <<redisVars, cur, outcome, toScan, target, dedup, histVars>>

CheckOwnLease(w) ==
  /\ pc[w] = "check"
  /\ IF lease[w]
       THEN Goto(w, "scan") /\ target' = [target EXCEPT ![w] = w]
       ELSE Goto(w, "drain") /\ UNCHANGED target
  /\ UNCHANGED <<redisVars, cur, outcome, toScan, dedup, histVars>>

\* EXISTS job:queue:worker:<v>: a list whose worker holds a lease is left.
CheckLease(w) ==
  /\ pc[w] = "check"
  /\ IF lease[target[w]]
       THEN Goto(w, "scan") /\ target' = [target EXCEPT ![w] = w]
       ELSE Goto(w, "drain") /\ UNCHANGED target
  /\ UNCHANGED <<redisVars, cur, outcome, toScan, dedup, histVars>>

RecoverPop(w, m) ==
  /\ pc[w] = "drain"
  /\ Rpop(target[w], m)
  /\ cur' = [cur EXCEPT ![w] = m]
  /\ Goto(w, "repush")
  /\ UNCHANGED <<outcome, toScan, target, dedup, histVars>>

\* RPOP returned nil: leave the inner loop.
RecoverEmpty(w) ==
  /\ pc[w] = "drain"
  /\ proc[target[w]] = EmptyList
  /\ Goto(w, "delete")
  /\ UNCHANGED <<redisVars, cur, outcome, toScan, target, dedup, histVars>>

RecoverPush(w) ==
  /\ pc[w] = "repush"
  /\ LpushQueue(cur[w])
  /\ cur' = [cur EXCEPT ![w] = NoMsg]
  /\ Goto(w, "drain")
  /\ UNCHANGED <<outcome, toScan, target, dedup, histVars>>

RecoverDelete(w) ==
  /\ pc[w] = "delete"
  /\ DelProcessing(target[w])
  /\ target' = [target EXCEPT ![w] = w]
  /\ Goto(w, "scan")
  /\ UNCHANGED <<cur, outcome, toScan, dedup, histVars>>

ScanDone(w) ==
  /\ pc[w] = "scan"
  /\ toScan[w] = {}
  /\ Goto(w, "idle")
  /\ UNCHANGED <<redisVars, cur, outcome, toScan, target, dedup, histVars>>

\* _claim_message. The EXPIRE before it refreshes a lease that exists and does
\* nothing for one that is gone: no lease is regained.
Claim(w) ==
  /\ pc[w] = "idle"
  /\ Brpoplpush(w)
  /\ cur' = [cur EXCEPT ![w] = Head(queue)]
  /\ Goto(w, "claimed")
  /\ UNCHANGED <<outcome, toScan, target, dedup, histVars>>

\* Malformed JSON, no job name, a wrong token: dropped and counted.
Reject(w) ==
  /\ pc[w] = "claimed"
  /\ KindOf[cur[w].id] # "job"
  /\ Record(w, "reject")
  /\ Goto(w, "ack")
  /\ UNCHANGED <<redisVars, cur, outcome, toScan, target, dedup, pub, ran, errors>>

\* dispatch: the registry has no such job, a hard failure.
NotFound(w) ==
  /\ pc[w] = "claimed"
  /\ KindOf[cur[w].id] = "job"
  /\ JobIn(w) \notin Registered
  /\ outcome' = [outcome EXCEPT ![w] = "fail"]
  /\ Goto(w, "failing")
  /\ UNCHANGED <<redisVars, cur, toScan, target, dedup, histVars>>

\* dispatch: this process has marked the id before; counted as processed.
Duplicate(w) ==
  /\ pc[w] = "claimed"
  /\ KindOf[cur[w].id] = "job"
  /\ JobIn(w) \in Registered
  /\ cur[w].id \in dedup[w]
  /\ Record(w, "dup")
  /\ Goto(w, "ack")
  /\ UNCHANGED <<redisVars, cur, outcome, toScan, target, dedup, pub, ran, errors>>

\* dispatch: mark the id, then ask for the lock.
Mark(w) ==
  /\ pc[w] = "claimed"
  /\ KindOf[cur[w].id] = "job"
  /\ JobIn(w) \in Registered
  /\ cur[w].id \notin dedup[w]
  /\ dedup' = [dedup EXCEPT ![w] = @ \cup {cur[w].id}]
  /\ Goto(w, "locking")
  /\ UNCHANGED <<redisVars, cur, outcome, toScan, target, histVars>>

\* Mutant: SET without NX, which always succeeds.
LockOverwritten(w) ==
  /\ pc[w] = "locking"
  /\ lock' = [lock EXCEPT ![JobIn(w)] = cur[w].id]
  /\ setter' = [setter EXCEPT ![JobIn(w)] = {w}]
  /\ UNCHANGED <<queue, proc, lease, dead>>
  /\ ran' = ran \cup {cur[w]}
  /\ Goto(w, "running")
  /\ UNCHANGED <<cur, outcome, toScan, target, dedup, pub, log, errors>>

\* The lock is free: it is taken and job.run() entered.
LockAcquired(w) ==
  /\ pc[w] = "locking"
  /\ lock[JobIn(w)] = NoId
  /\ SetNx(w)
  /\ ran' = ran \cup {cur[w]}
  /\ Goto(w, "running")
  /\ UNCHANGED <<cur, outcome, toScan, target, dedup, pub, log, errors>>

\* It is not: "Lock not acquired" is benign, the message counts as processed.
LockBusy(w) ==
  /\ pc[w] = "locking"
  /\ lock[JobIn(w)] # NoId
  /\ Record(w, "lock")
  /\ Goto(w, "ack")
  /\ UNCHANGED <<redisVars, cur, outcome, toScan, target, dedup, pub, ran, errors>>

\* job.run() returns a result or a failure; exceptions become failures. A
\* failure text holding a benign marker is read as "handled elsewhere".
JobReturns(w, r) ==
  /\ pc[w] = "running"
  /\ r = "benign" => "marker" \in Faults
  /\ outcome' = [outcome EXCEPT ![w] = r]
  /\ CASE r = "ok" -> Record(w, "ok")
       [] r = "benign" -> Record(w, "marker")
       [] OTHER -> UNCHANGED log
  /\ Goto(w, "release")
  /\ UNCHANGED <<redisVars, cur, toScan, target, dedup, pub, ran, errors>>

\* dispatch's finally; then _handle_message reads the result.
Release(w) ==
  /\ pc[w] = "release"
  /\ LuaRelease(w)
  /\ Goto(w, IF outcome[w] = "fail" THEN "failing" ELSE "ack")
  /\ UNCHANGED <<cur, outcome, toScan, target, dedup, histVars>>

HandleFailure(w) ==
  /\ pc[w] = "failing"
  /\ PushFailure(w)
  /\ Goto(w, "ack")
  /\ UNCHANGED <<cur, outcome, toScan, target, dedup, histVars>>

\* The loop's finally; a cancelled loop ends there.
Ack(w) ==
  /\ pc[w] = "ack"
  /\ Lrem(w)
  /\ cur' = [cur EXCEPT ![w] = NoMsg]
  /\ outcome' = [outcome EXCEPT ![w] = IF @ = "stop" THEN @ ELSE "none"]
  /\ Goto(w, IF outcome[w] = "stop" THEN "unlease" ELSE "idle")
  /\ UNCHANGED <<toScan, target, dedup, histVars>>

\* The end of stop(): the lease key is deleted.
Unlease(w) ==
  /\ pc[w] = "unlease"
  /\ DelLease(w)
  /\ Goto(w, "stopped")
  /\ Forget(w)
  /\ UNCHANGED <<cur, outcome, histVars>>

-----------------------------------------------------------------------------
(* Time. *)

\* PX on the lock key. Without "slow_lock" no job outlasts it.
LockExpires(j) ==
  /\ lock[j] # NoId
  /\ \/ "slow_lock" \in Faults
     \/ ~ \E w \in Worker : pc[w] \in Executing /\ cur[w].id = lock[j]
  /\ lock' = [lock EXCEPT ![j] = NoId]
  /\ setter' = [setter EXCEPT ![j] = {}]
  /\ UNCHANGED <<queue, proc, lease, dead, localVars, histVars>>

\* A lock the process set is still there.
LeftLock(w) == \E j \in Job : w \in setter[j]

\* Mutant: a lease no longer than the lock's TTL.
ShortLease(w) ==
  /\ lease[w]
  /\ pc[w] \in {"stopped", "crashed"}
  /\ lease' = [lease EXCEPT ![w] = FALSE]
  /\ UNCHANGED <<queue, proc, dead, lock, setter, localVars, histVars>>

\* EX on the lease key, refreshed on every turn of the loop. It runs out when
\* the process is gone, after (300 s < 600 s) any lock the process has set;
\* with "slow_lease" also under a job that outlasts it.
LeaseExpires(w) ==
  /\ lease[w]
  /\ \/ pc[w] \in {"stopped", "crashed"} /\ ~ LeftLock(w)
     \/ "slow_lease" \in Faults /\ pc[w] = "running"
  /\ lease' = [lease EXCEPT ![w] = FALSE]
  /\ UNCHANGED <<queue, proc, dead, lock, setter, localVars, histVars>>

\* The deduplicator forgets an id after its TTL (3600 s).
DedupExpires(w, i) ==
  /\ pc[w] \in Alive
  /\ i \in dedup[w]
  /\ dedup' = [dedup EXCEPT ![w] = @ \ {i}]
  /\ UNCHANGED <<redisVars, pc, cur, outcome, toScan, target, histVars>>

-----------------------------------------------------------------------------
(* Crashes, cancellation, Redis errors. *)

\* The process is gone with its memory; what it put in Redis stays.
Crash(w) ==
  /\ "crash" \in Faults
  /\ pc[w] \in Alive \cup {"unlease"}
  /\ pc[w] = "repush" => "recovery_crash" \in Faults
  /\ Goto(w, "crashed")
  /\ cur' = [cur EXCEPT ![w] = NoMsg]
  /\ outcome' = [outcome EXCEPT ![w] = "none"]
  /\ Forget(w)
  /\ UNCHANGED <<redisVars, histVars>>

\* stop() cancels the loop at its await: the pending call took effect or not.
\* From within the try the finally still acknowledges; elsewhere the loop ends.
Cancelled(w, at, call, next) ==
  /\ "stop" \in Faults
  /\ pc[w] = at
  /\ outcome[w] # "stop"
  /\ Unanswered(call)
  /\ outcome' = [outcome EXCEPT ![w] = "stop"]
  /\ cur' = [cur EXCEPT ![w] = IF next = "unlease" THEN NoMsg ELSE @]
  /\ toScan' = [toScan EXCEPT ![w] = {}]
  /\ target' = [target EXCEPT ![w] = w]
  /\ Goto(w, next)
  /\ UNCHANGED <<dedup, histVars>>

Stop(w) ==
  \/ Cancelled(w, "new", SetLease(w), "unlease")
  \/ \E at \in {"scan", "check"} : Cancelled(w, at, UNCHANGED redisVars, "unlease")
  \/ Cancelled(w, "drain", \E m \in Msg : Rpop(target[w], m), "unlease")
  \/ Cancelled(w, "repush", LpushQueue(cur[w]), "unlease")
  \/ Cancelled(w, "delete", DelProcessing(target[w]), "unlease")
  \/ Cancelled(w, "idle", Brpoplpush(w), "unlease")
  \/ Cancelled(w, "locking", SetNx(w), "ack")
  \/ Cancelled(w, "running", UNCHANGED redisVars, "release")
  \/ Cancelled(w, "release", LuaRelease(w), "ack")
  \/ Cancelled(w, "failing", PushFailure(w), "ack")
  \/ Cancelled(w, "ack", Lrem(w), "unlease")

\* A call raises (time-out, lost connection): it took effect or not.
Raises(w, at, call, next) ==
  /\ "redis" \in Faults
  /\ errors < MaxErrors
  /\ pc[w] = at
  /\ Unanswered(call)
  /\ cur' = [cur EXCEPT ![w] = IF next \in {"idle", "unlease"} THEN NoMsg ELSE @]
  /\ toScan' = [toScan EXCEPT ![w] = {}]
  /\ target' = [target EXCEPT ![w] = w]
  /\ outcome' = [outcome EXCEPT ![w] = IF next = "idle" THEN "none" ELSE @]
  /\ Goto(w, next)
  /\ errors' = errors + 1
  /\ UNCHANGED <<dedup, pub, ran>>

RedisError(w) ==
  \* the start-up block: any error ends lease and recovery, the loop goes on
  \/ Raises(w, "new", SetLease(w), "idle") /\ UNCHANGED log
  \/ \E at \in {"scan", "check"} :
       Raises(w, at, UNCHANGED redisVars, "idle") /\ UNCHANGED log
  \/ Raises(w, "drain", \E m \in Msg : Rpop(target[w], m), "idle") /\ UNCHANGED log
  \/ Raises(w, "repush", LpushQueue(cur[w]), "idle") /\ UNCHANGED log
  \/ Raises(w, "delete", DelProcessing(target[w]), "idle") /\ UNCHANGED log
  \* the loop's own handler: log, sleep, next turn
  \/ Raises(w, "idle", Brpoplpush(w), "idle") /\ UNCHANGED log
  \/ Raises(w, "ack", Lrem(w), IF outcome[w] = "stop" THEN "unlease" ELSE "idle")
       /\ UNCHANGED log
  \* _acquire_redis answers False: a benign skip
  \/ Raises(w, "locking", SetNx(w), "ack") /\ Record(w, "lock")
  \* _release_redis swallows it
  \/ Raises(w, "release", LuaRelease(w),
            IF outcome[w] = "fail" THEN "failing" ELSE "ack") /\ UNCHANGED log
  \* the retry push raises through _handle_message; the finally acknowledges
  \/ Raises(w, "failing", PushFailure(w), "ack") /\ UNCHANGED log
  \* stop() suppresses a failing DEL
  \/ Raises(w, "unlease", DelLease(w), "stopped") /\ UNCHANGED log

-----------------------------------------------------------------------------
WorkerStep(w) ==
  \/ Start(w)
  \/ \E v \in Worker : ScanKey(w, v) \/ ScanPass(w, v)
  \/ CheckLease(w)
  \/ \E m \in Msg : RecoverPop(w, m)
  \/ RecoverEmpty(w)
  \/ RecoverPush(w)
  \/ RecoverDelete(w)
  \/ ScanDone(w)
  \/ Claim(w)
  \/ Reject(w)
  \/ NotFound(w)
  \/ Duplicate(w)
  \/ Mark(w)
  \/ LockAcquired(w)
  \/ LockBusy(w)
  \/ \E r \in {"ok", "fail", "benign"} : JobReturns(w, r)
  \/ Release(w)
  \/ HandleFailure(w)
  \/ Ack(w)
  \/ Unlease(w)

Fault(w) == Crash(w) \/ Stop(w) \/ RedisError(w)

Next ==
  \/ \E i \in Id : Publish(i)
  \/ \E w \in Worker : WorkerStep(w)
  \/ \E w \in Worker : Fault(w)
  \/ \E j \in Job : LockExpires(j)
  \/ \E w \in Worker : LeaseExpires(w)
  \/ \E w \in Worker, i \in Id : DedupExpires(w, i)

Spec == Init /\ [][Next]_vars

\* The event loop runs a ready consumer, a Redis call answers and a job returns:
\* every process that can take a step does. Nothing is assumed of publishing,
\* of faults or of expiring keys: no consumer ever waits for a lock.
Fairness == \A w \in Worker : WF_vars(WorkerStep(w))

FairSpec == Spec /\ Fairness

-----------------------------------------------------------------------------
(* Properties. *)

\* The Redis keys, the locals of every process and the history have their types.
RedisTypeOK ==
  /\ queue \in Seq(Msg)
  /\ proc \in [Worker -> [Msg -> Nat]]
  /\ lease \in [Worker -> BOOLEAN]
  /\ dead \subseteq Msg
  /\ lock \in [Job -> Id \cup {NoId}]
  /\ setter \in [Job -> SUBSET Worker]

LocalTypeOK ==
  /\ pc \in [Worker -> PC]
  /\ cur \in [Worker -> Msg \cup {NoMsg}]
  /\ outcome \in [Worker -> Outcome]
  /\ toScan \in [Worker -> SUBSET Worker]
  /\ target \in [Worker -> Worker]
  /\ dedup \in [Worker -> SUBSET Id]

HistTypeOK ==
  /\ pub \subseteq Id
  /\ ran \subseteq Msg
  /\ log \in [Id -> SUBSET LogEntry]
  /\ errors \in 0..MaxErrors

\* A consumer that handles a message, or carries one from a dead worker's list
\* to the queue, has a message in its hands.
HandTypeOK == \A w \in Worker : pc[w] \in Handling \cup {"repush"} => cur[w] \in Msg

\* Type correctness: an attempt number never leaves 1..MaxRetries on its way
\* through requeue, recovery and dead-lettering, and no step of the consumer
\* acts on a message it does not have.
TypeOK == RedisTypeOK /\ LocalTypeOK /\ HistTypeOK /\ HandTypeOK

\* The distributed lock: two worker processes are never inside job.run() of
\* the same job, whatever crashes, cancellations, Redis errors and leaked
\* locks do, as long as no job outlasts the lock's TTL.
MutualExclusion ==
  \A v, w \in Worker :
    pc[v] = "running" /\ pc[w] = "running" /\ v # w => JobIn(v) # JobIn(w)

\* The queue, a processing list or the hand of a running recovery holds m.
InQueue(m) == \E k \in 1..Len(queue) : queue[k] = m
InProcessing(m) == \E w \in Worker : proc[w][m] > 0
InHand(m) == \E w \in Worker : pc[w] = "repush" /\ cur[w] = m
Held(m) == InQueue(m) \/ InProcessing(m) \/ InHand(m)

InDead(i) == \E m \in dead : m.id = i
HasCopy(i) == InDead(i) \/ \E m \in Msg : m.id = i /\ Held(m)

\* At-least-once delivery: a published message whose handling no worker has
\* counted is still in the queue, in a processing list or in the dead-letter
\* list. Claim, requeue, dead-letter, acknowledgement and orphan recovery
\* never leave a window in which a crashing process takes it along.
NoLoss == \A i \in pub : log[i] # {} \/ HasCopy(i)

\* The orphan recovery drains and deletes processing lists of dead workers
\* only: a list whose owner is still consuming is never touched.
LeaseProtects ==
  \A w \in Worker :
    pc[w] \in {"drain", "repush", "delete"} => pc[target[w]] \notin Alive

\* A message of a known job reaches the dead-letter list only after its whole
\* retry budget was spent: every attempt from the first to the last was run.
DeadMeansExhausted ==
  \A m \in dead :
    JobOf[m.id] \in Registered =>
      \A k \in 1..MaxRetries : [id |-> m.id, attempt |-> k] \in ran

\* "Lock not acquired" drops a message as handled elsewhere. When the lock that
\* stops it carries its own id, another worker's processing list still holds a
\* copy of it: an orphan is never dropped because of the lock its own dead
\* worker left, which runs out before the lease lets the orphan be recovered.
SkipLeavesCopy ==
  \A w \in Worker :
    pc[w] = "locking" /\ lock[JobIn(w)] = cur[w].id =>
      \E v \in Worker \ {w}, m \in Msg : m.id = cur[w].id /\ proc[v][m] > 0

\* "On hard failure, retried up to max_retries times ... then moved to
\* job:dead": a message that was not counted as run, skipped for the lock or
\* rejected is still queued, in processing or dead-lettered. A "Duplicate"
\* skip alone does not settle it.
FailureIsRetried == \A i \in pub : log[i] \ {"dup"} # {} \/ HasCopy(i)

\* Every published message is eventually counted or dead-lettered, as long as a
\* worker is left to take it and it is not an orphan in a crashed worker's list.
Delivered ==
  \A i \in Id :
    i \in pub ~> \/ log[i] # {}
                \/ InDead(i)
                \/ (\A w \in Worker : pc[w] = "crashed")
                \/ \E w \in Worker, m \in Msg :
                     pc[w] = "crashed" /\ m.id = i /\ proc[w][m] > 0

\* A worker that starts once the lease of a crashed worker is gone empties the
\* crashed worker's processing list, unless it dies itself.
OrphansRecovered ==
  \A v, w \in Worker :
    (pc[v] = "crashed" /\ ~ lease[v] /\ proc[v] # EmptyList /\ pc[w] = "new")
    ~> (proc[v] = EmptyList \/ pc[w] \in {"stopped", "crashed"})
=============================================================================
