# Formal models of the job queue, the API budget, the fund ledger and two write-behind buffers

The repository is a market-data and analytics platform: scheduler and worker
processes fetch, compute and store data, a REST/WebSocket API serves it. Most
of its code is numeric or plain I/O. What is hard to get right, and what these
modules are about, is the part in which several processes coordinate through
Redis: the job queue with its distributed lock and dead-letter tools
(`jobs/`), and the budget governor that keeps all processes together below the
quota of the BrsApi data provider (`brsapi/`). Three more parts coordinate
through the database: the fund ledger with its transactional outbox, and two
buffers in process memory that a background task writes behind, the usage
recorder and the accuracy outcome queue.

## 1. Inventory

| component | state | operations | interacts with |
|---|---|---|---|
| Job publisher `jobs/queue_publisher.py` | none | `publish` (LPUSH `job:queue`) | scheduler, queue |
| Job queue consumer `jobs/queue_consumer.py` | `job:queue`, one processing list and one lease key per worker, `job:dead`; counters | start, orphan recovery, claim (BRPOPLPUSH), handle, retry / dead-letter, acknowledge (LREM), stop | dispatcher, Redis |
| Job dispatcher, deduplicator `jobs/job_dispatcher.py`, `jobs/deduplication.py` | marks of the last hour, in process memory | `dispatch`: registry, duplicate check, lock, run, release | lock, jobs |
| Distributed lock `jobs/locking.py` | key `job:<name>` with a TTL and the job id as token | `acquire` (SET NX PX), `release` (compare and delete), `extend` (unused by `dispatch`) | Redis |
| Dead-letter replay `jobs/replay.py` | `job:dead`, `job:queue` | replay and discard by rotation, read-only listing and summary | CLI, admin endpoint, workers |
| Budget governor `brsapi/budget.py` | daily counter, 5-minute window and block record in Redis; initialized flag and block copy per process | `check_allowed`, `acquire` (reserve, window, limiter, record or release), `report_302`, `report_ok` | limiter, client, Redis |
| Rate limiter `brsapi/rate_limiter.py` | daily count and date, buckets, local window | `acquire`, daily reset | governor |
| BrsApi client `brsapi/client.py` | none of its own that matters here | `fetch`: pre-check, acquire, HTTP with retries, report | governor, circuit breaker |
| Scheduler application `apps/scheduler` | APScheduler triggers | publish, or run in-process when publishing failed | publisher, dispatcher |
| Worker application `apps/worker` | running flag | starts and stops the consumer | consumer |
| Kill switch `services/kill_switch.py` | flag in Redis, mirror in each process | `kill`, `revive`, `refresh`, `is_killed` | signal factory |
| Fund ledger and outbox `services/fund_ledger.py`, `jobs/definitions/fund_nav_jobs.py` | tables of movements, journal entries with lines, outbox rows; an open transaction per request; the rows a relay has read | `record_unit_movement`, `post_entry`, `reverse_entry`; relay: `pending_outbox`, `_publish` (XADD), `mark_published`, `mark_failed` | API, PostgreSQL, Redis stream |
| Usage recorder `brsapi/usage_recorder.py` | counters of each Tehran day in memory; one row per day | `record_used`, `flush` (timer, admin endpoint, shutdown), `stop` | governor, database |
| Accuracy outcome queue `services/accuracy_outcome_queue.py` | bounded deque, the batch being written, counters | `enqueue`, `flush`, `stop` | signal tracker, database |
| Circuit breaker `core/resilience` | state, failure count, probe count | `call` | every outgoing call |
| Workflow orchestration `orchestration/` | step results, checkpoints | run steps, retry, compensate, recover | jobs |
| WebSocket manager, event bus, cache, precompute workers, backtesting, ML, domain rules, ingestion, API and front end | see `PROJECT.json` | | |

Hard behaviours, each listed with its line under `hazards` in `PROJECT.json`:

* worker processes interleave at every Redis call and job, crash anywhere, are
  stopped by cancellation in the middle of a message, and recover each other's
  processing lists while the owners may be alive;
* three time-outs race: the lock (300 s), the worker's lease (600 s) and the
  deduplicator (3600 s); none of the first two is renewed while a job runs;
* a Redis call that raises may have been applied; every component swallows or
  passes on such errors differently;
* operators' replay commands rotate a list that others rotate and refill;
* the governor decides with values read before an await, gives reservations
  back in a second round trip, and crosses midnight while doing so;
* ledger requests race for unique keys inside open transactions and die between
  statements and between the two commits of a reversal; relays overlap;
* the write-behind buffers take new data while a flush awaits the database,
  flushes overlap, fail, lose their reply and are cancelled by the shutdown.

What makes the components correct: a message is never lost and never dropped
without reason; one job runs in one worker at a time; the retry budget is used
up before a message is given up, and not more; a live worker is not robbed; a
replay moves each selected message once and leaves the rest in place and in
order; all processes together stay within the daily budget, rejected requests
give their slot back, and a cooldown is observed; a movement, its journal entry
and its event are booked once and together, and every event is published; what
was buffered is written, in order and once, or its loss is counted.

## 2. Modules

| module | models | kind |
|---|---|---|
| `JobQueue` | publisher, consumer, dispatcher, deduplicator, lock as one system of processes over Redis | state machine, safety and liveness properties |
| `MCJobQueue` | instances for TLC | |
| `JobQueueProofs` | theorems about `JobQueue` | TLAPS |
| `DeadLetters` | what the dead-letter list and its tools promise | abstract specification |
| `DeadLetterReplay` | `jobs/replay.py` in its two mutating modes; implements `DeadLetters` | state machine, refinement |
| `MCDeadLetterReplay` | instances for TLC | |
| `DeadLetterReplayProofs` | theorems about `DeadLetterReplay`, the refinement included | TLAPS |
| `BudgetGovernor` | governor, the limiter's daily cap and the client's calls | state machine |
| `MCBudgetGovernor` | instances for TLC | |
| `BudgetGovernorProofs` | theorems about `BudgetGovernor` | TLAPS |
| `FundLedger` | ledger requests over PostgreSQL transactions, outbox and its relay | state machine, safety and liveness |
| `MCFundLedger` | instances for TLC | |
| `FundLedgerProofs` | theorems about `FundLedger` | TLAPS |
| `UsageRecorder` | usage recorder of one process | state machine, safety and liveness |
| `UsageRecorderProofs` | theorems about `UsageRecorder` | TLAPS |
| `OutcomeQueue` | accuracy outcome queue of one process | state machine, safety and liveness |
| `OutcomeQueueProofs` | theorems about `OutcomeQueue` | TLAPS |

One step of a process is everything it does up to its next await on Redis, on
the job or on the server: that is where asyncio tasks and processes interleave,
where a crash leaves a prefix of the effects, and where a cancellation arrives.
A Redis command or Lua script is atomic at the server. A command interrupted by
a cancellation or an error has two outcomes, applied and not applied.

### 2.1 JobQueue

`queue`, `proc`, `lease`, `dead` and `lock` are the Redis keys. `pc` is the
await at which each consumer stands, `cur` and `outcome` its locals in
`_consume_loop` and `dispatch`, `toScan` and `target` those of
`_recover_orphaned_messages`, `dedup` the process's `JobDeduplicator`. `pub`,
`ran`, `log` and `errors` are history, and so is `setter`, the process that set
each lock (the key itself only holds the job id). A worker id is a fresh uuid, so a
restarted process is another element of `Worker`.

| action | code |
|---|---|
| `Publish` | `JobQueuePublisher.publish` |
| `Start`, `ScanKey`, `ScanPass`, `CheckLease`, `RecoverPop`, `RecoverEmpty`, `RecoverPush`, `RecoverDelete`, `ScanDone` | start of `_consume_loop`, `_recover_orphaned_messages` |
| `Claim` | EXPIRE of the lease and `_claim_message` |
| `Reject`, `NotFound`, `Duplicate`, `Mark`, `LockAcquired`, `LockBusy`, `JobReturns`, `Release` | `_handle_message` and `dispatch` |
| `HandleFailure` | `_handle_failure`, `_dead_letter` |
| `Ack` | the `finally` of the loop |
| `Stop`, `Unlease` | `stop()`: cancellation at every await, then DEL of the lease |
| `RedisError` | a raising call at every await, with the handler it reaches |
| `Crash`, `LockExpires`, `LeaseExpires`, `DedupExpires` | death of a process, TTLs |

Two TTLs are related: a lock (300 s) is set after the last renewal of its
process's lease (600 s), so the lease of a process that is gone does not run out
while a lock it has set is still there. `LeaseExpires` waits for exactly those
locks (`LeftLock`), whoever else holds one.

Processing lists are bags because LREM and RPOP only depend on content; `dead`
is a set because JobQueue only adds to it. Retries go to the queue directly, as
the code's requeue does. `Faults` selects what may go wrong, so that each
property can be stated with exactly the assumptions it needs; the theorems
quantify over `Faults` in the same way.

Not in the model: a worker without a Redis client (it idles), redis-py's own
retries, the dispatcher's semaphore (never contended with one message per
process), the lock's non-Redis backends, clocks that disagree.

### 2.2 DeadLetters and DeadLetterReplay

The concrete module has the list `job:dead` with its order, the number of
copies workers hold of each message, and per command the turns left of its
loop, the matches counted and the message in its hand. `Begin` is LLEN, `Turn`
the LPOP with its three continuations (`PopOther`, `PopDiscard`, `PopReplay`),
`Rotate`, `Replay`, `Restore` the pushes; `ReplayFails`, `RestoreFails` and
`Raised` are the error paths, and `Killed` (with `Raised`, for the other calls)
is a command that is cancelled or whose process dies while it holds a message. Workers are reduced to `Settle` and `Bury`. The
filters are the constant `Matching`.

`DeadLetters` knows only where each message is. The refinement mapping
`PlaceOf` counts a message in a command's hand as still dead, so that rotation
and restoration are stutters.

`Visited` is the reference a pass is measured by: the messages not reached yet,
then the ones passed over, in their order. The latter (`Kept`) are written with
the positions of the list and without recursion, so that the proofs can use
them; `KeptFilters` in `MCDeadLetterReplay` lets TLC compare them with
`SelectSeq` on every list of up to four messages.

The read-only modes, the summary and malformed messages are left out.

### 2.3 BudgetGovernor

`daily`, `window`, `rblock` are the Redis keys; `up`, `until`, `seen302`,
`lcount`, `ldate` the memory of a process; `pc`, `day`, `payload` the locals of
a request. `Fetch` and `Precheck` are `check_allowed`; `Gate`, `ReserveDaily`,
`Enforce5min`, `Limiter`, `RecordUsed` are `acquire`; `ReleaseDaily` and
`DeleteKey` are the two round trips of `_release_daily`; the `Answer` actions
and `PersistBlock` are the client's reports. `LoadBlock` and `Seed` are
`initialize`, which the first request of a process runs, and `InitFails` its two
reads when they raise: the process then starts without the block, or without the
count of today. `Cancel` and `RedisError` cover every await of a request after
that, `Crash` all of a process. `eroded` and `leaked` are history: the days whose counter
lost a slot that was in use, or kept one nobody uses. They are what the
properties except, so each property says that nothing *else* can break the
count.

Left out: the cancellation of a request inside `initialize` (the next request
runs it again from the start), the file and memory backends, waiting instead of failing fast, token
buckets and the limiter's own window (they only delay), HTTP retries (they are
not counted by the code either) and the circuit breaker around the call.

### 2.4 FundLedger

`moves`, `journal`, `reversed` and `outbox` are the committed rows; `tx` is what
a session has written and not committed, `pc` and `arg` where its request is.
One step is one SQL statement or one commit. `Waits` is the part taken from
PostgreSQL: an INSERT that meets an uncommitted row under a unique index waits
for that transaction. `post_entry` has three outcomes, as the code: the key is
new, the key is known (no commit), or the source reference belongs to another
entry (an IntegrityError that rolls the session back). `CommitMovement` stands
for the commit at the end of `post_entry` and, when that returned early, for
the one of `get_session` at the end of the request. `reverse_entry`,
`CommitReversal` and `MarkReversed` are a reversal with its two commits. The
relay is `execute` (reads the pending rows), `publish` (XADD, or the log when it
raises), `mark_published`, `mark_failed`. `todo` holds the ids a relay has read and not dealt with;
they are dealt with in the order of the ids, so `Row(r)`, the least one, is
where relay `r` is.

What a relay does after an error depends on its session. A statement or a commit
that raises leaves the session with a transaction it refuses to go on with, so
the `mark_failed` of the handler raises as well and the pass ends (`RelayDies`;
`CommitRaises`, with the update applied or not). Only when the UPDATE of
`mark_published` gets no connection is nothing begun, and `mark_failed` follows
(`ConnectRaises`); that needs a session which gave its connection back at an
earlier commit, so `holding` has the relays whose SELECT still holds one.

Three variables are history: `torn`, the reversals whose request died before
the status was written; `doubled`, the entries that were committed when the
journal, a set of contents, already had the same row; `rivals`, the relays whose
pass overlapped another's. `Request` and `Reversible` are what the requests of an
instance record and reverse; the theorems hold for all of them.

Amounts and quantities are abstracted to the side of a line. The rows that the
compliance service writes to the same outbox, the read-only listings, the trial
balance and the unused fee accrual lines are left out, and so are arguments that
`record_unit_movement` rejects before its first statement.

### 2.5 UsageRecorder and OutcomeQueue

Both have one process, whose coroutines interleave at their awaits. In
`UsageRecorder` the counters of a day are objects in `heap`, and a flush keeps
references to them (`snap`): the code reads the count when it builds the
statement of a day, not when it takes the snapshot, and forgets the object after
the commit. `Send`, `Execute`, `Commit` and `Pop` are the flush; timer, admin
endpoint and `stop()` each may be in one. `stopped` follows `stop()`, also to the
end of its own flush: "failed" when that raised. `OutcomeQueue` has the deque, the
batch a flush has taken out, and the table as the sequence of its INSERTs; the
statements of a batch are one transaction. In both, `Stop` cancels the timer's
coroutine wherever it is, also with the commit already sent, and `StopFlush` is
the flush that follows. Block counts, timestamps and the death of the process
(which loses its memory by design) are left out.

## 3. Runs

| run | instance | shows |
|---|---|---|
| `queue_faults` | 1 message, 2 workers, 2 attempts, 1 raising call, all faults but slow jobs; queue of at most 2 | `TypeOK`, `MutualExclusion`, `DeadMeansExhausted` |
| `queue_crash` | a good, a wrongly signed and an unregistered message, 3 workers that crash | `NoLoss`, `LeaseProtects`, `SkipLeavesCopy` |
| `queue_live` | 2 messages of one job, 2 workers that crash, fairness | `MutualExclusion`, `Delivered`, `OrphansRecovered` |
| `queue_swallowed_retry` | no fault at all | violation of `FailureIsRetried` |
| `queue_stop_loses` | graceful stop | violation of `NoLoss` |
| `replay` | 3 messages, a replay and a discard limited to 1, 2 raising calls or killed commands, fairness | `TypeOK`, `ExactlyOnce`, `PassResult`, `Refinement`, `PassEnds` |
| `budget` | 3 requests in 2 processes, limit 2, warning and soft ceiling at 50 %, window of 1, one midnight, 1 raising call, all faults | `TypeOK`, `DailyCap`, `NoOvercount`, `CooldownHolds` |
| `budget_del_race` | limit 1, cancellation only | violation of `HardCap` |
| `ledger` | 2 requests at a time, 2 relays, one fund, 4 movements over two references, types and dates, reversals of one key, 1 failure of a relay, XADD, commit or connection, requests die freely, fairness of the relays | `TypeOK`, `BookedOnce`, `BookedTogether`, `ReversalCancels`, `StatusAgrees`, `OnlyCommittedEvents`, `AtLeastOnce`, `PublishedStays`, `Relayed` |
| `ledger_unbooked` | no fault at all | violation of `MovementBooked` |
| `usage` | 2 days, 2 requests a day, 2 failing flushes, fairness | `TypeOK`, `QuietCounted`, `CountedOnce`, `Drains` |
| `outcome` | maxsize 2, 7 outcomes, 3 failing flushes, fairness | `TypeOK`, `Accounted`, `Bounded`, `Ordered`, `Flushed` |

Why the bounds are enough. Two workers are needed for every race over lock and
lists, a third for two recoverers of one dead worker. Two attempts make both
branches of `attempt < max_retries` and the coexistence of two attempts of one
message reachable; the attempt number is otherwise only incremented. Two
messages of one job are what competes for a lock. One raising call at each
point reaches every handler; `replay` has two because its restore path needs a
second one. `MCQueueBound` in `queue_faults` only limits the copies that
repeated recoveries of one message can pile up. For the replay, three messages
and a limit of one make the loop bound, the limit and the empty list each end
a pass. In the budget, two requests in one process and one in another make
local and shared counters differ, and a clock of one midnight lets a
reservation be released on the wrong day. Symmetry is used over workers, or
over the two equal requests, in runs of safety properties only. In the ledger,
two movement types with one reference meet in both unique indexes, two dates
make the key of the movement finer than that of the entry, a second reference
gives the relays' loops a second row, and two relays with
one failure reach every mark of a row the other has marked; one reversal level
is enough because a reversal is posted like any entry. Two days and three
callers make flushes of the usage recorder overlap partly, and seven outcomes
with three failures let the outcome queue overflow before, during and after a
batch is out.

Deadlock is not checked: the published ids, the commands, the requests and the
worker incarnations of an instance are finite, and a behaviour really ends
when they are used up.

Fairness. `queue_live` assumes weak fairness of each worker's own steps: the
event loop resumes a ready task, Redis answers or the call raises, a job
returns. Nothing is assumed of publishers, faults or expiring keys: no consumer
waits for a lock. `replay` assumes the same of a command once it has started,
and nothing of operators or workers; messages may come back to the dead-letter
list for ever. `ledger` assumes it of each relay, which the scheduler starts
every few minutes and which goes on once started, and nothing of requests.
`usage` and `outcome` assume it of the timer, of a flush under way and of the
shutdown's flush once `stop()` was called; neither the endpoint nor `stop()` need
ever be called, and the failures of the database are finitely many. The other
runs check safety only.

### What the violations show

* **A retry can vanish.** The deduplicator is marked before the job runs and a
  retry keeps its `job_id`; the worker that ran the failed attempt takes the
  retry for a duplicate and counts it as processed.
* **`stop()` loses the message in hand**: the cancelled task still passes the
  acknowledging `finally`.
* **The daily hard cap can be passed**: the DEL that follows a DECRBY to zero
  removes reservations made in between.
* **A movement can stay unbooked.** The idempotency key of a movement's entry
  leaves out the date that the movement's own unique key has. A reference used
  again on another date inserts the movement, finds the key, and commits the
  movement without an entry or an event.

### Limits of the guarantees that hold

Found by enabling the fault concerned, and recorded as hazards: a crash between
RPOP and LPUSH of the recovery loses the orphan; a worker whose job outlasts
the lease is robbed, and its list deleted, by every starting worker; a raising
requeue or dead-letter push loses the message; a crash before the
acknowledgement runs a successful job again; a worker with an empty registry
dead-letters jobs that never ran; orphans wait until some worker starts after
their lease ran out; a reservation that raises is let through uncounted. A job
that outlasts the 300 s of the lock runs in two workers at once, because nothing
extends it. A replay whose push and restoring push both fail loses the message
of that turn, the second error being suppressed, and so does a command that is
killed between its LPOP and the push. The block after a 302 is read
when a governor is initialized, so a running replica does not learn of another's.

In the ledger, a reference belongs to one fund and type: the default reference
has no fund in it, so a second fund's equal movement of the day fails with an
IntegrityError. An event whose XADD raises is logged and its row marked published.
`mark_failed` does not look at the status: when two passes overlap, it takes back
a row that the other relay has published, and with it the event is published
again or a published row ends FAILED. A commit of `mark_published` that raises
ends the pass, and its later rows wait for the next one. Usage counted while a flush of that day awaits the database may be
forgotten by the pop that follows (`QuietCounted` counts the rest), and a flush
cancelled or overlapped between commit and pop is counted twice; a request that
is counted after `stop()` has taken its last snapshot stays in memory. The outcome
queue grows past maxsize by every batch that fails, and the batch in hand when
`stop()` cancels the flusher is neither written nor put back.

## 4. Proofs

### 4.1 JobQueueProofs

`JobQueueProofs` holds six theorems for every set of messages, jobs and
workers, every `MaxRetries >= 1` and every `MaxErrors`. They use the named
assumptions of `JobQueue` on its constants and nothing else.

| theorem | statement | assumption on faults |
|---|---|---|
| `TypeCorrect` | `Spec => []TypeOK` | none |
| `Exclusion` | `Spec => []MutualExclusion` | no job outlasts the lock |
| `LeaseSafe` | `Spec => []LeaseProtects` | no raising call, no job outlasts the lease |
| `NothingLost` | `Spec => []NoLoss` | workers fail by crashing only, outside the recovery's gap, and no job outlasts the lease |
| `RetryBudget` | `Spec => []DeadMeansExhausted` | none |
| `SkippedHasCopy` | `Spec => []SkipLeavesCopy` | no stop, no raising call, no job outlasts the lease |

Each assumption is needed: a run above, or an instance with that fault enabled,
violates the property without it.

*Types.* `TypeOK` is inductive because it includes `HandTypeOK`: a consumer
that handles a message has one. Without it, `cur.attempt + 1` may leave the
range.

*Exclusion.* Mutual exclusion is not inductive: a worker that runs without
owning the key would let another in. `LockInv` adds that whoever is between SET
NX and the end of the release owns the key (`Owns`) and that no two workers of
one job are there together (`Alone`). The token is the job id and not the
process, so two attempts of one message have the same token; `Alone` is what
makes the compare-and-delete of one harmless for the other.

*Lease.* `LeaseInv` says that a consuming worker holds its lease, that a worker
that has not started has an empty list, that the recovery only aims at started
workers, and that a list being deleted is empty and stays so. The last part is
what makes the DEL safe: an owner that is dead never adds to it.

*No loss.* At each acknowledgement the message must be counted or have a
successor: `AckInv` states it with `Later(m)`, a copy of a later attempt or a
dead letter; `ReleaseInv` carries the outcome from the end of the job to there.
Both lean on `LeaseInv`, because a robbed list could lose the only copy.

*Retry budget.* `RanInv` says that every copy of attempt *k*, in a list, in a
hand or beyond, has had the attempts before it run. Copies that recoveries
make, repeated acknowledgements and interrupted requeues all preserve it, so
it needs no assumption on faults.

*Benign skips.* A consumer that finds the lock taken with the id of its own
message drops the message, so whoever took the lock must still answer for a
copy. `GuardInv` says of every lock that the worker which set it stands behind it:
it has the message in its processing list and is running it, or has crashed with
its lease not yet run out (`LockGuarded`); that a worker handling a message has it
in its list (`OwnCopy`); and that a list being drained has no lease (`Lapsed`).
The last part keeps a recoverer away from the list of the crashed worker until
the lease has gone, which happens only after the shorter TTL of the locks this
very worker has set (`setter`). The lock's own TTL may be outlasted: an expired lock is not
one that anybody skips for.

### 4.2 OutcomeQueueProofs

Four theorems, for every maxsize of at least 1, every number of outcomes and of
failing flushes, and every combination of faults, from the one assumption that
`OutcomeQueue` makes of its constants.

| theorem | statement |
|---|---|
| `QueueTypeCorrect` | `Spec => []TypeOK` |
| `NeverSilent` | `Spec => []Accounted` |
| `BoundHolds` | `Spec => []Bounded` |
| `OrderHolds` | `Spec => []Ordered` |

Each property is inductive together with `TypeOK`. `Accounted` is argued with the
items of a sequence (`ItemsAppend`, `ItemsConcat`, `ItemsTail`). `Bounded` holds
because a queue whose batch is out stays within maxsize, which is all that can
come on top of the batch when it returns. `Ordered` is split into `Parts` (batch and queue each
ascend, the queue comes after the batch, both after the table) because a flush
moves a whole part at a time.

### 4.3 DeadLetterReplayProofs

For every set of messages and of commands, every mode, filter and limit, any
number of failing calls and every combination of faults, from the assumptions of
`DeadLetterReplay` on its constants.

| theorem | statement |
|---|---|
| `TypeCorrect` | `Spec => []TypeOK` |
| `MessagesExistOnce` | `Spec => []ExactlyOnce` |
| `ReplayImplementsStore` | `Spec => Refinement` |
| `UndisturbedPass` | `Spec => []PassResult` |

*Exactly once.* `Aboard(i)` counts the copies of a message in `job:dead` and in
hands. Every step is one of a few kinds (`Kind`, lemma `StepKinds`): it leaves
each message's counts as they are, or settles, buries, discards, replays or
spoils one message and leaves the others. The lemmas `AtTail`, `AtAppend` and
`AtCons` say what LPOP, RPUSH and LPUSH do to the count of a list. The invariant
adds `Tracked`: finitely many hands hold a message, so that they can be counted,
and what a command replays is something its filters select.

*Refinement.* The kinds of step map one to one to the actions of `DeadLetters` or
to a stutter. That needs the invariant: only because a message exists once is a
settled copy the whole message, and only because of `Tracked` was a replay
allowed to move it.

*The result of a pass.* Mid-way a pass says nothing about its end, so `PassInv`
follows it: the command has seen a prefix of the list it measured (`Seen`),
`total` is the number of matches in the prefix, the limit was not reached before
the last message seen, and the list is `Visited` of the prefix, but for the
message that is being rotated. `KeptStep` and `VisitedHead` are one turn of the
loop; `StopsAt` says that the three ways of ending (the count of LLEN, the limit,
an empty list) all stop where `Stops` does. A step of anyone else leaves the pass
alone or ends its calm (`OthersApart`).

### 4.4 BudgetGovernorProofs

For any number of processes and requests, every limit, window, warning level,
soft ceiling, cooldown and day length, and every combination of faults.

| theorem | statement |
|---|---|
| `TypeCorrect` | `Spec => []TypeOK` |
| `CooldownNeverShrinks` | `Spec => CooldownHolds` |
| `DailyCapHolds` | `Spec => []DailyCap` |
| `NoOvercountHolds` | `Spec => []NoOvercount` |

`TypeOK` needs `UnderLimit`: a process seeds its own count from the shared one,
which the reservation script keeps within the limit. The cooldown needs
`Bounded`: no block, in a process, in Redis or on its way there, ends later than
one cooldown from now, so a new one never ends before a running one. The two
counting theorems come from `Counted`. `Held(d)` are the granted requests of day
*d* and those with a reservation; outside `eroded` the counter is at least their
number and outside `leaked` at most (`Balanced`), requests granted are past the
limiter, and the holders are finitely many. Each step takes a slot, gives one up,
orphans one, deletes the key, kills holders or leaves the slots alone.

### 4.5 FundLedgerProofs

For every set of requests, funds, dates, types, references, every finite set of
relays (`RelayAssumption`: their number must be countable for the bound on the
stream), every depth of reversal and number of failures.

| theorem | statement |
|---|---|
| `TypeCorrect` | `Spec => []TypeOK` |
| `NoDoubleBooking` | `Spec => []BookedOnce` |
| `MovementEntryAndRow` | `Spec => []BookedTogether` |
| `StatusFollowsJournal` | `Spec => []StatusAgrees` |
| `ReversalsCancel` | `Spec => []ReversalCancels` |
| `PublishedWasHandedOver` | `Spec => []AtLeastOnce` |
| `PublishedIsFinal` | `Spec => PublishedStays` |
| `StreamIsBounded` | `Spec => []OnlyCommittedEvents` |

The core is `IInv` (theorem `LedgerInvariant`), which none of its parts is
without the others. `Sessions` says what the open transaction of a request holds
at each of its steps and what it knows of the journal there. `Unique` extends
`BookedOnce` to uncommitted entries: none shares a key or source with a committed
entry or with one of another session, which is what the waiting of an INSERT
under a unique index gives; that an identical row is never committed again
(`doubled`) follows from it. `Together` relates movements, entries and outbox rows
both ways, with the one exception that `BookedTogether` names and `MovementBooked`
is violated by: a movement whose reference was booked for another date. `Chained` gives each reversal the entry it reverses, `Status` relates
the status to the journal. `ReversalsCancel` needs `Numbered` on top: the entries
of a key have the depths 0, 1, 2, ..., the sides of their lines alternate, and so
as many are even as odd when their number is even. The relay's theorems need that
a relay past the XADD has handed its event over (`HandedOver`), and a count of
the relays that hold a row there (`StreamBound`). `PublishedIsFinal` rests on
`Alone`: a relay outside `rivals` is the only one that runs, and the rows it has
yet to handle are still PENDING, so its `mark_failed` takes nothing back. This
needs that a commit which may have been applied is never followed by
`mark_failed`, and fails with a handler that rolls the session back.

### 4.6 UsageRecorderProofs

For any number of days, requests and failures of the database.

| theorem | statement |
|---|---|
| `TypeCorrect` | `Spec => []TypeOK` |
| `QuietRequestsSurvive` | `Spec => []QuietCounted` |
| `NoDoubleCount` | `Spec => []CountedOnce` |

That nothing is forgotten too early needs `Covers`: table plus what a flush
carries (its transaction, the statement it has sent, or the objects it still
refers to) is at least what was recorded in quiet. That nothing is counted twice
needs `OneHand`, that a day outside `twice` is in the hands of one flush only,
which refers to the very object that is in memory, and `Open`, that only a flush
before its commit has something in its transaction.

### 4.7 Only model-checked

Every invariant and every action property that a passing run checks is also
proved, `NoLoss`, `LeaseProtects`, `MutualExclusion` and `SkipLeavesCopy` under
the assumptions on faults given above. Only model-checked are the liveness properties `Delivered`,
`OrphansRecovered`, `PassEnds`, `Relayed`, `Drains` and `Flushed`: fairness and
`ENABLED` are beyond the prover. The same holds for `KeptFilters`, which would be
an induction over lists. The four violations are counterexamples of TLC.

## 5. Plan

In this order, the most important behaviour first. Done: 1 to 7.

1. `JobQueue` with its runs.
2. `JobQueueProofs`: types, exclusion, lease, loss, retry budget.
3. `DeadLetters` and `DeadLetterReplay` with the refinement.
4. `BudgetGovernor` with its runs.
5. `FundLedger` with its runs, `UsageRecorder`, `OutcomeQueue`.
6. `OutcomeQueueProofs`: types, accounting, bound, order.
7. `FundLedgerProofs`, `UsageRecorderProofs`, `BudgetGovernorProofs`,
   `DeadLetterReplayProofs` with the refinement and the result of a pass, and
   `SkipLeavesCopy` in `JobQueueProofs`.
8. The in-process fallback of `apps/scheduler/app.py` composed with the queue, in
   particular a publish whose reply was lost; the replay of a dead letter
   composed with the workers' deduplicators.
9. `KillSwitch` (mirrors against Redis), `CircuitBreaker` (concurrent probes),
   `Orchestration` (steps, retries, compensation).

## 6. Not modelled

Not planned, beyond items 8 and 9: numeric analytics, backtesting and machine learning (floating
point, no concurrency), parsing and ingestion (pure I/O), presentation, and
the stale copy under `_FRONTEND_BACKEND_COPY`. The reasons are in
`PROJECT.json`.
