--------------------------- MODULE BudgetGovernor ---------------------------
(***************************************************************************)
(* The BrsApi budget governor (brsapi/budget.py) with its Redis backend, as*)
(* brsapi/client.py drives it: requests of several processes reserve a slot*)
(* of the shared daily budget, pass the shared 5-minute window and the     *)
(* process's own limiter, go out and report HTTP 302 (over quota) or 200.  *)
(*                                                                         *)
(* One step is what a request does up to its next await. Requests take one *)
(* token and fail fast, the defaults of every caller. Waits of the limiter *)
(* (buckets, its own window) are steps not taken yet.                      *)
(***************************************************************************)
EXTENDS Integers, FiniteSets

CONSTANTS
  Task,        \* requests
  Process,     \* processes; a crashed one may start again
  ProcOf,      \* the process of each request
  Critical,    \* requests for critical endpoints
  DailyLimit,  \* requests per Tehran day
  WarnPct,     \* percentage from which usage is reported, and load may be shed
  SoftPct,     \* percentage from which non-critical requests are shed
  WindowCap,   \* entries of the shared 5-minute window
  Cooldown,    \* length of the block after a 302, in ticks
  DayLength,   \* ticks from midnight to midnight
  MaxNow,      \* bound: last tick
  MaxErrors,   \* bound: Redis calls that raise in one behaviour
  Faults       \* what may go wrong in this instance

FaultKind ==
  {"cancel",  \* a waiting request is cancelled
   "crash",   \* a process dies and loses its memory
   "redis",   \* a Redis call raises, applied or not
   "302"}     \* the server answers that the account is over quota

ASSUME ProcAssumption == ProcOf \in [Task -> Process]
ASSUME CriticalAssumption == Critical \subseteq Task
ASSUME LimitAssumption ==
  /\ DailyLimit \in Nat \ {0} /\ WindowCap \in Nat \ {0}
  /\ WarnPct \in 1..100 /\ SoftPct \in 1..100
ASSUME TimeAssumption ==
  /\ Cooldown \in Nat \ {0} /\ DayLength \in Nat \ {0} /\ MaxNow \in Nat
ASSUME BoundAssumption == MaxErrors \in Nat /\ Faults \subseteq FaultKind

VARIABLES
  \* ---- Redis ----
  daily,     \* <prefix>:daily:<date>, 0 when the key is absent
  window,    \* entries of <prefix>:5min
  rblock,    \* blocked_until in <prefix>:block, 0 when absent or cleared
  \* ---- processes ----
  up,        \* is the governor initialized: "no", "loaded" (block read), "yes"
  until,     \* its own blocked_until
  seen302,   \* its block record has count > 0
  lcount,    \* the limiter's _daily_count
  ldate,     \* the limiter's _daily_date, -1 for none
  \* ---- requests ----
  pc,        \* where each request is
  day,       \* the day whose budget it reserved, or whose key it is deleting
  payload,   \* the blocked_until it is about to write
  \* ---- time and history ----
  now,
  granted,   \* requests the governor let through
  eroded,    \* days whose counter lost a slot that was in use
  leaked,    \* days whose counter kept a slot nobody uses
  errors     \* Redis calls that raised so far

redisVars == <<daily, window, rblock>>
processVars == <<up, until, seen302, lcount, ldate>>
taskVars == <<pc, day, payload>>
histVars == <<granted, eroded, leaked, errors>>
vars == <<redisVars, processVars, taskVars, now, histVars>>

Day == 0..(MaxNow \div DayLength)
Today == now \div DayLength

PC == {"new", "precheck", "gate", "reserve", "window", "limiter", "record", "http",
       "persist", "release", "delete", "done", "rejected", "dead"}
Final == {"done", "rejected", "dead"}

\* The request holds a reservation that is not a granted request yet.
Reserved == {"window", "limiter", "release"}

Init ==
  /\ daily = [d \in Day |-> 0]
  /\ window = 0
  /\ rblock = 0
  /\ up = [p \in Process |-> "no"]
  /\ until = [p \in Process |-> 0]
  /\ seen302 = [p \in Process |-> FALSE]
  /\ lcount = [p \in Process |-> 0]
  /\ ldate = [p \in Process |-> -1]
  /\ pc = [t \in Task |-> "new"]
  /\ day = [t \in Task |-> 0]
  /\ payload = [t \in Task |-> 0]
  /\ now = 0
  /\ granted = {}
  /\ eroded = {}
  /\ leaked = {}
  /\ errors = 0

Goto(t, label) == pc' = [pc EXCEPT ![t] = label]
Erode(d) == eroded' = eroded \cup {d}
Leak(d) == leaked' = leaked \cup {d}

\* _is_blocked_now of the request's process
Blocked(t) == now < until[ProcOf[t]]

\* The hard cap, then _gate_daily_usage: below WarnPct it returns, past SoftPct
\* it sheds non-critical load
Shed(t, used) ==
  \/ used >= DailyLimit
  \/ LET pct == (used * 100) \div DailyLimit IN
       pct >= WarnPct /\ pct >= SoftPct /\ t \notin Critical

\* _reset_daily_if_needed: the limiter's count of today
LocalCount(p) == IF ldate[p] = Today THEN lcount[p] ELSE 0

-----------------------------------------------------------------------------
(* Initialization, under the governor's lock, by the first request. *)

\* _load_block_redis
LoadBlock(p) ==
  /\ up[p] = "no"
  /\ up' = [up EXCEPT ![p] = "loaded"]
  /\ until' = [until EXCEPT ![p] = rblock]
  /\ seen302' = [seen302 EXCEPT ![p] = rblock > 0]
  /\ UNCHANGED <<redisVars, lcount, ldate, taskVars, now, histVars>>

\* _seed_limiter_from_persisted: the count only moves up
Seed(p) ==
  /\ up[p] = "loaded"
  /\ up' = [up EXCEPT ![p] = "yes"]
  /\ IF ldate[p] = Today
       THEN UNCHANGED <<lcount, ldate>>
       ELSE /\ lcount' = [lcount EXCEPT ![p] = IF @ > daily[Today] THEN @ ELSE daily[Today]]
            /\ ldate' = [ldate EXCEPT ![p] = Today]
  /\ UNCHANGED <<redisVars, until, seen302, taskVars, now, histVars>>

\* Either GET raises: the block, or the count of today, stays what it was
InitFails(p) ==
  /\ "redis" \in Faults
  /\ errors < MaxErrors
  /\ errors' = errors + 1
  /\ \/ /\ up[p] = "no"
        /\ up' = [up EXCEPT ![p] = "loaded"]
        /\ UNCHANGED ldate
     \/ /\ up[p] = "loaded" /\ ldate[p] # Today
        /\ up' = [up EXCEPT ![p] = "yes"]
        /\ ldate' = [ldate EXCEPT ![p] = Today]
  /\ UNCHANGED <<redisVars, until, seen302, lcount, taskVars, now, granted, eroded, leaked>>

-----------------------------------------------------------------------------
(* A request: check_allowed, then acquire. *)

\* fetch -> check_allowed, up to its GET
Fetch(t) ==
  /\ pc[t] = "new"
  /\ up[ProcOf[t]] = "yes"
  /\ Goto(t, IF Blocked(t) THEN "rejected" ELSE "precheck")
  /\ UNCHANGED <<redisVars, processVars, day, payload, now, histVars>>

\* The answer used, the gates of check_allowed, and acquire's block check
PrecheckWith(t, used) ==
  /\ pc[t] = "precheck"
  /\ Goto(t, IF Shed(t, used) \/ LocalCount(ProcOf[t]) >= DailyLimit \/ Blocked(t)
               THEN "rejected" ELSE "gate")
  /\ UNCHANGED <<redisVars, processVars, day, payload, now, granted, eroded, leaked>>

Precheck(t) == PrecheckWith(t, daily[Today]) /\ UNCHANGED errors

\* acquire: the second GET and its gates
GateWith(t, used) ==
  /\ pc[t] = "gate"
  /\ Goto(t, IF Shed(t, used) THEN "rejected" ELSE "reserve")
  /\ UNCHANGED <<redisVars, processVars, day, payload, now, granted, eroded, leaked>>

Gate(t) == GateWith(t, daily[Today]) /\ UNCHANGED errors

\* Mutant: the script compares the count before it adds the request.
FitsLate(used) == used <= DailyLimit

\* The condition of the Lua script
Fits(used) == used + 1 <= DailyLimit

\* _reserve_daily: the check-and-reserve script
ReserveDaily(t) ==
  /\ pc[t] = "reserve"
  /\ IF Fits(daily[Today])
       THEN /\ daily' = [daily EXCEPT ![Today] = @ + 1]
            /\ day' = [day EXCEPT ![t] = Today]
            /\ Goto(t, "window")
       ELSE Goto(t, "rejected") /\ UNCHANGED <<daily, day>>
  /\ UNCHANGED <<payload, window, rblock, processVars, now, histVars>>

\* Mutant: a full window rejects the request and keeps its reservation.
EnforceKeeps(t) ==
  /\ pc[t] = "window"
  /\ Goto(t, IF window < WindowCap THEN "limiter" ELSE "rejected")
  /\ UNCHANGED <<redisVars, processVars, day, payload, now, histVars>>

\* _enforce_5min; a rejection gives the reservation back
Enforce5min(t) ==
  /\ pc[t] = "window"
  /\ Goto(t, IF window < WindowCap THEN "limiter" ELSE "release")
  /\ UNCHANGED <<redisVars, processVars, day, payload, now, histVars>>

\* Mutant: the limiter counts without looking at its daily cap.
LocalRoomAlways(p) == TRUE

\* The limiter's own daily cap
LocalRoom(p) == LocalCount(p) < DailyLimit

\* RateLimiter.acquire: count the request, or raise at the local cap
Limiter(t) ==
  /\ pc[t] = "limiter"
  /\ LET p == ProcOf[t] IN
       IF LocalRoom(p)
         THEN /\ lcount' = [lcount EXCEPT ![p] = LocalCount(p) + 1]
              /\ granted' = granted \cup {t}
              /\ Goto(t, "record")
         ELSE /\ lcount' = [lcount EXCEPT ![p] = LocalCount(p)]
              /\ Goto(t, "release")
              /\ UNCHANGED granted
  /\ ldate' = [ldate EXCEPT ![ProcOf[t]] = Today]
  /\ UNCHANGED <<redisVars, up, until, seen302, day, payload, now, eroded, leaked, errors>>

\* _record_used: ZADD to the shared window; the request goes out
RecordUsed(t) ==
  /\ pc[t] = "record"
  /\ window' = window + 1
  /\ Goto(t, "http")
  /\ UNCHANGED <<daily, rblock, processVars, day, payload, now, histVars>>

\* _release_daily: DECRBY on the key of the day it is now
Decr(t) ==
  /\ daily' = [daily EXCEPT ![Today] = @ - 1]
  /\ eroded' = IF day[t] = Today THEN eroded ELSE eroded \cup {Today}
  /\ leaked' = IF day[t] = Today THEN leaked ELSE leaked \cup {day[t]}

ReleaseDaily(t) ==
  /\ pc[t] = "release"
  /\ Decr(t)
  /\ IF daily[Today] - 1 <= 0
       THEN Goto(t, "delete") /\ day' = [day EXCEPT ![t] = Today]
       ELSE Goto(t, "rejected") /\ UNCHANGED day
  /\ UNCHANGED <<payload, window, rblock, processVars, now, granted, errors>>

\* DEL of that key: whatever was reserved since the DECRBY goes with it
Del(t) ==
  /\ daily' = [daily EXCEPT ![day[t]] = 0]
  /\ eroded' = IF daily[day[t]] > 0 THEN eroded \cup {day[t]} ELSE eroded
  /\ UNCHANGED leaked

DeleteKey(t) ==
  /\ pc[t] = "delete"
  /\ Del(t)
  /\ Goto(t, "rejected")
  /\ UNCHANGED <<window, rblock, processVars, day, payload, now, granted, errors>>

-----------------------------------------------------------------------------
(* The answer of the server. *)

\* Mutant: a late 200 clears a block whose cooldown is running.
AnswerOkClears(t) ==
  /\ pc[t] = "http"
  /\ until' = [until EXCEPT ![ProcOf[t]] = 0]
  /\ seen302' = [seen302 EXCEPT ![ProcOf[t]] = FALSE]
  /\ payload' = [payload EXCEPT ![t] = 0]
  /\ Goto(t, "persist")
  /\ UNCHANGED <<redisVars, up, lcount, ldate, day, now, histVars>>

\* 200: report_ok forgets a block whose cooldown is over
AnswerOk(t) ==
  /\ pc[t] = "http"
  /\ LET p == ProcOf[t] IN
       IF now >= until[p] /\ seen302[p]
         THEN /\ until' = [until EXCEPT ![p] = 0]
              /\ seen302' = [seen302 EXCEPT ![p] = FALSE]
              /\ payload' = [payload EXCEPT ![t] = 0]
              /\ Goto(t, "persist")
         ELSE Goto(t, "done") /\ UNCHANGED <<until, seen302, payload>>
  /\ UNCHANGED <<redisVars, up, lcount, ldate, day, now, histVars>>

\* 302: report_302 arms the cooldown
Answer302(t) ==
  /\ "302" \in Faults
  /\ pc[t] = "http"
  /\ until' = [until EXCEPT ![ProcOf[t]] = now + Cooldown]
  /\ seen302' = [seen302 EXCEPT ![ProcOf[t]] = TRUE]
  /\ payload' = [payload EXCEPT ![t] = now + Cooldown]
  /\ Goto(t, "persist")
  /\ UNCHANGED <<redisVars, up, lcount, ldate, day, now, histVars>>

\* Any other answer once the retries are used up, or a cancellation: the
\* request fails
AnswerError(t) ==
  /\ pc[t] = "http"
  /\ Goto(t, "done")
  /\ UNCHANGED <<redisVars, processVars, day, payload, now, histVars>>

\* _persist_block: SET of the record as it was when the answer came
PersistBlock(t) ==
  /\ pc[t] = "persist"
  /\ rblock' = payload[t]
  /\ Goto(t, "done")
  /\ UNCHANGED <<daily, window, processVars, day, payload, now, histVars>>

-----------------------------------------------------------------------------
(* Time. *)

\* Entries leave the 5-minute window as time passes.
Tick ==
  /\ now < MaxNow
  /\ now' = now + 1
  /\ window' \in 0..window
  /\ UNCHANGED <<daily, rblock, processVars, taskVars, histVars>>

\* The block key outlives its cooldown by a minute
BlockExpires ==
  /\ rblock > 0 /\ now >= rblock
  /\ rblock' = 0
  /\ UNCHANGED <<daily, window, processVars, taskVars, now, histVars>>

-----------------------------------------------------------------------------
(* Faults. *)

\* The await inside acquire's try is cancelled: the reservation is released.
CancelReserved(t) ==
  /\ pc[t] \in {"window", "limiter"}
  /\ Goto(t, "release")
  /\ UNCHANGED <<redisVars, processVars, day, payload, now, histVars>>

\* The reservation is awaited outside the try: what it added stays.
CancelReserve(t) ==
  /\ pc[t] = "reserve"
  /\ Goto(t, "rejected")
  /\ \/ UNCHANGED <<daily, leaked>>
     \/ /\ Fits(daily[Today])
        /\ daily' = [daily EXCEPT ![Today] = @ + 1]
        /\ Leak(Today)
  /\ UNCHANGED <<window, rblock, processVars, day, payload, now, granted, eroded, errors>>

\* _record_used is awaited outside the try: the slot stays used.
CancelRecord(t) ==
  /\ pc[t] = "record"
  /\ window' \in {window, window + 1}
  /\ Goto(t, "done")
  /\ UNCHANGED <<daily, rblock, processVars, day, payload, now, histVars>>

\* The release itself is cancelled or raises, applied or not.
ReleaseLost(t) ==
  /\ \/ /\ pc[t] = "release"
        /\ \/ Decr(t)
           \/ UNCHANGED <<daily, eroded>> /\ Leak(day[t])
     \/ /\ pc[t] = "delete"
        /\ \/ Del(t)
           \/ UNCHANGED <<daily, eroded, leaked>>
  /\ Goto(t, "rejected")
  /\ UNCHANGED <<window, rblock, processVars, day, payload, now, granted>>

\* Nothing is held, or the answer is being persisted.
CancelOther(t) ==
  /\ \/ pc[t] \in {"precheck", "gate"} /\ Goto(t, "rejected") /\ UNCHANGED rblock
     \/ pc[t] = "persist" /\ Goto(t, "done") /\ rblock' \in {rblock, payload[t]}
  /\ UNCHANGED <<daily, window, processVars, day, payload, now, histVars>>

Cancel(t) ==
  /\ "cancel" \in Faults
  /\ \/ CancelReserved(t)
     \/ CancelReserve(t)
     \/ CancelRecord(t)
     \/ ReleaseLost(t) /\ UNCHANGED errors
     \/ CancelOther(t)

\* A process dies: its requests end, its reservations stay, its memory is lost.
Crash(p) ==
  /\ "crash" \in Faults
  /\ up[p] = "yes"
  /\ LET mine == {t \in Task : ProcOf[t] = p /\ pc[t] \notin Final \cup {"new"}} IN
       /\ pc' = [t \in Task |-> IF t \in mine THEN "dead" ELSE pc[t]]
       /\ leaked' = leaked \cup {day[t] : t \in {u \in mine : pc[u] \in Reserved}}
  /\ up' = [up EXCEPT ![p] = "no"]
  /\ until' = [until EXCEPT ![p] = 0]
  /\ seen302' = [seen302 EXCEPT ![p] = FALSE]
  /\ lcount' = [lcount EXCEPT ![p] = 0]
  /\ ldate' = [ldate EXCEPT ![p] = -1]
  /\ UNCHANGED <<redisVars, day, payload, now, granted, eroded, errors>>

-----------------------------------------------------------------------------
(* A Redis call raises; errors' is counted in RedisError. *)

\* _daily_used answers 0
ReadFails(t) == PrecheckWith(t, 0) \/ GateWith(t, 0)

\* _reserve_daily degrades to reading the counter, which is never above the
\* limit: the request goes on as if it had reserved
ReserveFails(t) ==
  /\ pc[t] = "reserve"
  /\ Goto(t, "window")
  /\ day' = [day EXCEPT ![t] = Today]
  /\ \/ /\ Fits(daily[Today])
        /\ daily' = [daily EXCEPT ![Today] = @ + 1]
        /\ UNCHANGED eroded
     \/ UNCHANGED daily /\ Erode(Today)
  /\ UNCHANGED <<window, rblock, processVars, payload, now, granted, leaked>>

\* _enforce_5min and _record_used swallow the error
WindowFails(t) ==
  /\ \/ pc[t] = "window" /\ Goto(t, "limiter") /\ UNCHANGED window
     \/ pc[t] = "record" /\ Goto(t, "http") /\ window' \in {window, window + 1}
  /\ UNCHANGED <<daily, rblock, processVars, day, payload, now, granted, eroded, leaked>>

\* _persist_block swallows the error
PersistFails(t) ==
  /\ pc[t] = "persist"
  /\ rblock' \in {rblock, payload[t]}
  /\ Goto(t, "done")
  /\ UNCHANGED <<daily, window, processVars, day, payload, now, granted, eroded, leaked>>

RedisError(t) ==
  /\ "redis" \in Faults
  /\ errors < MaxErrors
  /\ errors' = errors + 1
  /\ \/ ReadFails(t)
     \/ ReserveFails(t)
     \/ WindowFails(t)
     \/ ReleaseLost(t)
     \/ PersistFails(t)

-----------------------------------------------------------------------------

TaskStep(t) ==
  \/ Fetch(t)
  \/ Precheck(t)
  \/ Gate(t)
  \/ ReserveDaily(t)
  \/ Enforce5min(t)
  \/ Limiter(t)
  \/ RecordUsed(t)
  \/ ReleaseDaily(t)
  \/ DeleteKey(t)
  \/ AnswerOk(t)
  \/ Answer302(t)
  \/ AnswerError(t)
  \/ PersistBlock(t)

Next ==
  \/ \E p \in Process : LoadBlock(p) \/ Seed(p) \/ InitFails(p) \/ Crash(p)
  \/ \E t \in Task : TaskStep(t) \/ Cancel(t) \/ RedisError(t)
  \/ Tick
  \/ BlockExpires

Spec == Init /\ [][Next]_vars

-----------------------------------------------------------------------------
(* Properties. *)

\* Granted requests and pending reservations of day d
GrantedOn(d) == {t \in granted : day[t] = d}
ReservedOn(d) == {t \in Task : pc[t] \in Reserved /\ day[t] = d}

\* Types. The process's own count never passes the daily limit, whatever the
\* shared counter it was seeded from did.
TypeOK ==
  /\ daily \in [Day -> Int]
  /\ window \in Nat
  /\ rblock \in Nat
  /\ up \in [Process -> {"no", "loaded", "yes"}]
  /\ until \in [Process -> Nat]
  /\ seen302 \in [Process -> BOOLEAN]
  /\ lcount \in [Process -> 0..DailyLimit]
  /\ ldate \in [Process -> Day \cup {-1}]
  /\ pc \in [Task -> PC]
  /\ day \in [Task -> Day]
  /\ payload \in [Task -> Nat]
  /\ now \in 0..MaxNow
  /\ granted \subseteq Task
  /\ eroded \subseteq Day /\ leaked \subseteq Day
  /\ errors \in 0..MaxErrors

\* acquire: over all processes no day grants more requests than the daily
\* limit, unless its counter lost a used slot: by the DEL of _release_daily,
\* by a release after midnight, or by a reservation that raised.
DailyCap ==
  \A d \in Day \ eroded : Cardinality(GrantedOn(d)) <= DailyLimit

\* _release_daily: a rejected or cancelled request gives its slot back. The
\* counter never exceeds what is granted or still pending, unless a process
\* died, a cancellation hit the reservation, or a release failed or moved to
\* the next day.
NoOvercount ==
  \A d \in Day \ leaked :
    daily[d] <= Cardinality(GrantedOn(d)) + Cardinality(ReservedOn(d))

\* report_ok: a 200 that arrives late, after another request of the process
\* was answered 302, never shortens the running cooldown.
CooldownHolds ==
  [][\A p \in Process :
       now < until[p] /\ up'[p] = "yes" => until'[p] >= until[p]]_vars

\* What budget.py calls the daily hard cap: no day grants more requests than
\* the daily limit.
HardCap == \A d \in Day : Cardinality(GrantedOn(d)) <= DailyLimit
=============================================================================
