----------------------------- MODULE FundLedger -----------------------------
(***************************************************************************)
(* The fund ledger (services/fund_ledger.py) and the relay of its outbox   *)
(* (jobs/definitions/fund_nav_jobs.py). API requests record unit movements *)
(* and reverse journal entries, each in a database session of its own; the *)
(* relay job reads the pending outbox rows and sends them to a Redis       *)
(* stream.                                                                 *)
(*                                                                         *)
(* One step is one SQL statement or one commit. What a session wrote and   *)
(* did not commit is in tx; an INSERT that meets a row of an uncommitted   *)
(* transaction under a unique index waits for that transaction, as         *)
(* PostgreSQL does. Amounts are 1: only which account is debited and       *)
(* credited, and how often, matters. The compliance service writes rows of *)
(* the same shape into the outbox and is left out.                         *)
(***************************************************************************)
EXTENDS Integers, Sequences, FiniteSets

CONSTANTS
  Fund, Date, Ref,   \* fund ids, movement dates, references of the movements
  Type,              \* the movement types of this instance
  Request,           \* the movements the requests of this instance record
  Reversible,        \* the keys whose entries they reverse
  Client,            \* API requests served at a time
  Relay,             \* relay jobs that may run at a time
  MaxDepth,          \* bound: reversals of reversals
  AttemptLimit,      \* attempts from which a failing row is given up (4)
  MaxErrors,         \* bound: failures in one behaviour
  Faults             \* what may go wrong in this instance

FaultKind ==
  {"client",  \* a request dies: its process or its connection is gone
   "relay",   \* a relay job dies, or a statement of it raises
   "commit",  \* the commit of a relay's UPDATE raises, applied or not
   "connect", \* its session gets no connection for the UPDATE
   "xadd"}    \* the XADD raises and was not applied

\* UNIT_MOVEMENT_ACCOUNTS: the account debited and the account credited
Accounts ==
  [ISSUE |-> <<"CASH", "UNITS_LIABILITY">>,
   REDEEM |-> <<"UNITS_LIABILITY", "CASH">>,
   DISTRIBUTION |-> <<"RETAINED_EARNINGS", "DISTRIBUTION_PAYABLE">>,
   TRANSFER |-> <<"UNITS_LIABILITY", "UNITS_LIABILITY">>,
   PLEDGE |-> <<"UNITS_LIABILITY", "UNITS_LIABILITY">>,
   RELEASE |-> <<"UNITS_LIABILITY", "UNITS_LIABILITY">>]

ASSUME TypeAssumption == Type \subseteq DOMAIN Accounts
ASSUME BoundAssumption ==
  /\ MaxDepth \in Nat /\ AttemptLimit \in Nat /\ MaxErrors \in Nat
  /\ Faults \subseteq FaultKind
ASSUME RelayAssumption == IsFiniteSet(Relay)

Movement == [fund: Fund, date: Date, type: Type, ref: Ref]
Key == [fund: Fund, type: Type, ref: Ref]
ASSUME RequestAssumption == Request \subseteq Movement /\ Reversible \subseteq Key
Line == [account: {Accounts[t][i] : t \in DOMAIN Accounts, i \in 1..2},
         debit: {0, 1}, credit: {0, 1}]

\* A journal entry: the entry of a movement has depth 0, its reversal depth 1,
\* the reversal of that depth 2. key and depth are the idempotency key. date is
\* the movement's: the time at which a reversal is posted does not matter.
Entry == [key: Key, depth: 0..MaxDepth, date: Date, lines: SUBSET Line]

\* The idempotency key of a movement's entry leaves its date out.
KeyOf(m) == [fund |-> m.fund, type |-> m.type, ref |-> m.ref]

VARIABLES
  moves,     \* rows of fund_unit_movements
  journal,   \* rows of journal_entries with their journal_lines
  reversed,  \* <<key, depth>> of the entries with status REVERSED
  outbox,    \* rows of fund_nav_outbox, in the order of their ids
  stream,    \* how often the stream got the event of each key
  logged,    \* the keys whose event went to the log instead
  pc,        \* where each request is
  arg,       \* the movement, or the entry to reverse, of each request
  tx,        \* what its session wrote and has not committed
  torn,      \* history: entries reversed by a request that died before marking
  doubled,   \* history: entries committed while the journal held the same row
  rpc,       \* where each relay job is
  todo,      \* the ids of the pending rows it read and has not handled
  holding,   \* the relays whose session still has the connection of its SELECT
  rivals,    \* history: the relays whose pass overlapped another relay's
  errors     \* failures so far

ledgerVars == <<moves, journal, reversed, doubled>>
clientVars == <<pc, arg, tx, torn>>
passVars == <<rpc, todo, holding, rivals>>
relayVars == <<passVars, stream, logged>>
vars == <<ledgerVars, outbox, clientVars, relayVars, errors>>

EmptyTx == [moves |-> {}, entries |-> {}, events |-> <<>>]
PC == {"idle", "post", "commit", "close", "rcommit", "mark"}

Init ==
  /\ moves = {} /\ journal = {} /\ reversed = {} /\ doubled = {} /\ outbox = <<>>
  /\ stream = [k \in Key |-> 0] /\ logged = {}
  /\ pc = [c \in Client |-> "idle"]
  /\ arg = [c \in Client |-> <<>>]
  /\ tx = [c \in Client |-> EmptyTx]
  /\ torn = {}
  /\ rpc = [r \in Relay |-> "idle"]
  /\ todo = [r \in Relay |-> {}]
  /\ holding = {} /\ rivals = {}
  /\ errors = 0

Goto(c, label) == pc' = [pc EXCEPT ![c] = label]

\* The request is answered, with a result or an error.
Done(c) == Goto(c, "idle") /\ arg' = [arg EXCEPT ![c] = <<>>]

Fail(kind) == kind \in Faults /\ errors < MaxErrors /\ errors' = errors + 1

-----------------------------------------------------------------------------
(* Journal entries. *)

build_unit_movement_lines(type) ==
  LET dr == Accounts[type][1]
      cr == Accounts[type][2]
  IN  IF dr = cr
        THEN {[account |-> dr, debit |-> 0, credit |-> 0]}
        ELSE {[account |-> dr, debit |-> 1, credit |-> 0],
              [account |-> cr, debit |-> 0, credit |-> 1]}

\* Mutant: the lines of the entry again, sides not swapped.
SameLines(lines) == lines

ReversedLines(lines) ==
  {[account |-> l.account, debit |-> l.credit, credit |-> l.debit] : l \in lines}

MovementEntry(m) ==
  [key |-> KeyOf(m), depth |-> 0, date |-> m.date,
   lines |-> build_unit_movement_lines(m.type)]

ReversalEntry(e) == [e EXCEPT !.depth = @ + 1, !.lines = ReversedLines(@)]

EntryId(e) == <<e.key, e.depth>>
SameKey(e, f) == EntryId(e) = EntryId(f)

\* Two entries of the unique index (source_system, source_ref_id): a
\* movement's source is its reference, a reversal's the entry it reverses.
SameSource(e, f) ==
  \/ SameKey(e, f)
  \/ e.depth = 0 /\ f.depth = 0 /\ e.key.ref = f.key.ref

Uncommitted(c) == UNION {tx[d].entries : d \in Client \ {c}}

\* Mutant: only committed rows are looked at, as a SELECT before the INSERT would.
NeverWaits(c, e) == FALSE

\* The INSERT of entry e waits while another session holds its key or source.
Waits(c, e) == \E f \in Uncommitted(c) : SameSource(e, f)

Posted(e) == \E f \in journal : SameKey(e, f)
SourceTaken(e) == \E f \in journal : SameSource(e, f)

Insert(t, e, events) == [t EXCEPT !.entries = @ \cup {e}, !.events = @ \o events]

\* post_entry up to its commit: the INSERT of the entry, of its lines and of
\* the outbox rows; an entry with the same key ends it without a commit.
post_entry(c, a, e, events, new, known) ==
  /\ ~Waits(c, e)
  /\ \/ /\ Posted(e)
        /\ Goto(c, known)
        /\ arg' = [arg EXCEPT ![c] = a]
        /\ UNCHANGED tx
     \/ /\ ~Posted(e)
        /\ ~SourceTaken(e)
        /\ tx' = [tx EXCEPT ![c] = Insert(@, e, events)]
        /\ Goto(c, new)
        /\ arg' = [arg EXCEPT ![c] = a]
     \/ /\ ~Posted(e)        \* IntegrityError: the session is rolled back
        /\ SourceTaken(e)
        /\ tx' = [tx EXCEPT ![c] = EmptyTx]
        /\ Done(c)

\* session.commit(): everything the session wrote, at once
Commit(c) ==
  /\ moves' = moves \cup tx[c].moves
  /\ journal' = journal \cup tx[c].entries
  /\ doubled' = doubled \cup (journal \cap tx[c].entries)
  /\ outbox' = outbox \o [i \in DOMAIN tx[c].events |->
                            [key |-> tx[c].events[i], status |-> "PENDING", attempts |-> 0]]
  /\ tx' = [tx EXCEPT ![c] = EmptyTx]

-----------------------------------------------------------------------------
(* Requests. *)

\* Mutant: the movement is committed before its entry is posted.
record_alone(c, m) ==
  /\ pc[c] = "idle"
  /\ m \notin moves
  /\ moves' = moves \cup {m}
  /\ Goto(c, "post")
  /\ arg' = [arg EXCEPT ![c] = m]
  /\ UNCHANGED <<journal, reversed, doubled, outbox, tx, torn, relayVars, errors>>

\* record_unit_movement: the INSERT of the movement
record_unit_movement(c, m) ==
  /\ pc[c] = "idle"
  /\ \A d \in Client \ {c} : m \notin tx[d].moves
  /\ \/ /\ m \in moves              \* answers created: False
        /\ Goto(c, "idle")
        /\ UNCHANGED <<arg, tx>>
     \/ /\ m \notin moves
        /\ Goto(c, "post")
        /\ arg' = [arg EXCEPT ![c] = m]
        /\ tx' = [tx EXCEPT ![c].moves = {m}]
  /\ UNCHANGED <<ledgerVars, outbox, torn, relayVars, errors>>

\* ... and its entry, with the event for the outbox
PostMovement(c) ==
  /\ pc[c] = "post"
  /\ post_entry(c, arg[c], MovementEntry(arg[c]), <<KeyOf(arg[c])>>, "commit", "close")
  /\ UNCHANGED <<ledgerVars, outbox, torn, relayVars, errors>>

\* The commit at the end of post_entry; or, when post_entry found the key and
\* did not commit, the commit of get_session at the end of the request.
CommitMovement(c) ==
  /\ pc[c] \in {"commit", "close"}
  /\ Commit(c)
  /\ Done(c)
  /\ UNCHANGED <<reversed, torn, relayVars, errors>>

\* Mutant: the status is not updated.
CommitReversalOnly(c) ==
  /\ pc[c] = "rcommit"
  /\ Commit(c)
  /\ Done(c)
  /\ UNCHANGED <<reversed, torn, relayVars, errors>>

CommitReversal(c) ==
  /\ pc[c] = "rcommit"
  /\ Commit(c)
  /\ Goto(c, "mark")
  /\ UNCHANGED <<reversed, arg, torn, relayVars, errors>>

\* reverse_entry: reads the entry and its lines, posts the reversal
reverse_entry(c, e) ==
  /\ pc[c] = "idle"
  /\ e.depth < MaxDepth
  /\ post_entry(c, e, ReversalEntry(e), <<>>, "rcommit", "mark")
  /\ UNCHANGED <<ledgerVars, outbox, torn, relayVars, errors>>

\* the UPDATE of the status and its commit
MarkReversed(c) ==
  /\ pc[c] = "mark"
  /\ reversed' = reversed \cup {EntryId(arg[c])}
  /\ torn' = torn \ {EntryId(arg[c])}
  /\ Done(c)
  /\ UNCHANGED <<moves, journal, doubled, outbox, tx, relayVars, errors>>

\* A request dies: PostgreSQL rolls its transaction back.
Abort(c) ==
  /\ "client" \in Faults
  /\ pc[c] # "idle"
  /\ tx' = [tx EXCEPT ![c] = EmptyTx]
  /\ torn' = IF pc[c] = "mark" THEN torn \cup {EntryId(arg[c])} ELSE torn
  /\ Done(c)
  /\ UNCHANGED <<ledgerVars, outbox, relayVars, errors>>

-----------------------------------------------------------------------------
(* The relay of the outbox. *)

\* Mutant: a row that failed once is not selected again.
fresh_outbox ==
  {i \in DOMAIN outbox : outbox[i].status = "PENDING" /\ outbox[i].attempts = 0}

pending_outbox == {i \in DOMAIN outbox : outbox[i].status = "PENDING"}

Running == {r \in Relay : rpc[r] # "idle"}

\* execute reads the pending rows; the session keeps its connection until it
\* commits.
execute(r) ==
  /\ rpc[r] = "idle"
  /\ pending_outbox # {}
  /\ todo' = [todo EXCEPT ![r] = pending_outbox]
  /\ rpc' = [rpc EXCEPT ![r] = "publish"]
  /\ holding' = holding \cup {r}
  /\ rivals' = IF Running = {} THEN rivals ELSE rivals \cup Running \cup {r}
  /\ UNCHANGED <<ledgerVars, outbox, clientVars, stream, logged, errors>>

\* The row the loop is at: the rows were read ORDER BY id.
Row(r) == CHOOSE i \in todo[r] : \A j \in todo[r] : i <= j

\* _publish: the XADD; when it raises, the event is logged and nothing raised.
publish(r) ==
  /\ rpc[r] = "publish"
  /\ \/ /\ stream' = [stream EXCEPT ![outbox[Row(r)].key] = @ + 1]
        /\ UNCHANGED <<logged, errors>>
     \/ /\ Fail("xadd")
        /\ logged' = logged \cup {outbox[Row(r)].key}
        /\ UNCHANGED stream
  /\ rpc' = [rpc EXCEPT ![r] = "mark"]
  /\ UNCHANGED <<ledgerVars, outbox, clientVars, todo, holding, rivals>>

\* Mutant: the loop goes on after the last row.
NextRowAlways(r) ==
  /\ todo' = [todo EXCEPT ![r] = @ \ {Row(r)}]
  /\ rpc' = [rpc EXCEPT ![r] = "publish"]
  /\ holding' = holding \ {r}
  /\ UNCHANGED rivals

\* The pass ends, at its last row or with an exception.
EndPass(r) ==
  /\ todo' = [todo EXCEPT ![r] = {}]
  /\ rpc' = [rpc EXCEPT ![r] = "idle"]
  /\ holding' = holding \ {r}
  /\ rivals' = rivals \ {r}

\* After a commit, which gives the connection back: the next row of the loop,
\* or the end of the pass.
NextRow(r) ==
  \/ /\ todo[r] # {Row(r)}
     /\ todo' = [todo EXCEPT ![r] = @ \ {Row(r)}]
     /\ rpc' = [rpc EXCEPT ![r] = "publish"]
     /\ holding' = holding \ {r}
     /\ UNCHANGED rivals
  \/ /\ todo[r] = {Row(r)}
     /\ EndPass(r)

\* Mutant: the attempt is not counted.
SetStatus(i, status) == outbox' = [outbox EXCEPT ![i].status = status]

Attempted(row, status) == [row EXCEPT !.status = status, !.attempts = @ + 1]

SetRow(i, status) ==
  outbox' = [outbox EXCEPT ![i] = Attempted(@, status)]

\* Mutant: the row may be marked before it is published.
mark_early(r) ==
  /\ rpc[r] \in {"publish", "mark"}
  /\ SetRow(Row(r), "PUBLISHED")
  /\ NextRow(r)
  /\ UNCHANGED <<ledgerVars, clientVars, stream, logged, errors>>

mark_published(r) ==
  /\ rpc[r] = "mark"
  /\ SetRow(Row(r), "PUBLISHED")
  /\ NextRow(r)
  /\ UNCHANGED <<ledgerVars, clientVars, stream, logged, errors>>

\* The UPDATE of mark_published gets no connection. Nothing was sent and the
\* session can go on, so the handler comes to mark_failed.
ConnectRaises(r) ==
  /\ rpc[r] = "mark"
  /\ r \notin holding
  /\ Fail("connect")
  /\ rpc' = [rpc EXCEPT ![r] = "failed"]
  /\ UNCHANGED <<ledgerVars, outbox, clientVars, stream, logged, todo, holding, rivals>>

\* CASE WHEN attempts >= 4 THEN 'FAILED' ELSE 'PENDING'
FailedStatus(i) == IF outbox[i].attempts >= AttemptLimit THEN "FAILED" ELSE "PENDING"

mark_failed(r) ==
  /\ rpc[r] = "failed"
  /\ SetRow(Row(r), FailedStatus(Row(r)))
  /\ NextRow(r)
  /\ UNCHANGED <<ledgerVars, clientVars, stream, logged, errors>>

\* Mutant: the handler rolls the session back, so that mark_failed can follow
\* a commit that was applied and raised.
RollsBack(r) ==
  /\ rpc[r] = "mark"
  /\ Fail("commit")
  /\ SetRow(Row(r), "PUBLISHED") \/ UNCHANGED outbox
  /\ rpc' = [rpc EXCEPT ![r] = "failed"]
  /\ UNCHANGED <<ledgerVars, clientVars, stream, logged, todo, holding, rivals>>

\* The commit of mark_published or of mark_failed raises, applied or not: the
\* session refuses every further statement, and the pass ends.
CommitRaises(r) ==
  /\ rpc[r] \in {"mark", "failed"}
  /\ Fail("commit")
  /\ \/ SetRow(Row(r), IF rpc[r] = "mark" THEN "PUBLISHED" ELSE FailedStatus(Row(r)))
     \/ UNCHANGED outbox
  /\ EndPass(r)
  /\ UNCHANGED <<ledgerVars, clientVars, stream, logged>>

\* A statement raises on the connection the session has, or the process is gone.
RelayDies(r) ==
  /\ rpc[r] # "idle"
  /\ Fail("relay")
  /\ EndPass(r)
  /\ UNCHANGED <<ledgerVars, outbox, clientVars, stream, logged>>

-----------------------------------------------------------------------------
ClientNext(c) ==
  \/ \E m \in Request : record_unit_movement(c, m)
  \/ PostMovement(c)
  \/ CommitMovement(c)
  \/ CommitReversal(c)
  \/ \E e \in journal : e.key \in Reversible /\ reverse_entry(c, e)
  \/ MarkReversed(c)
  \/ Abort(c)

RelayStep(r) == execute(r) \/ publish(r) \/ mark_published(r) \/ mark_failed(r)

RelayNext(r) == RelayStep(r) \/ ConnectRaises(r) \/ CommitRaises(r) \/ RelayDies(r)

Next == (\E c \in Client : ClientNext(c)) \/ (\E r \in Relay : RelayNext(r))

Spec == Init /\ [][Next]_vars

\* The scheduler starts the relay every few minutes, and a started job goes on.
FairSpec == Spec /\ \A r \in Relay : WF_vars(RelayStep(r))

-----------------------------------------------------------------------------
(* Properties. *)

OutboxRow == [key: Key, status: {"PENDING", "PUBLISHED", "FAILED"}, attempts: Nat]

\* Every variable keeps the shape of the table or object it stands for, and a
\* relay only holds ids of rows that exist.
TypeOK ==
  /\ moves \subseteq Movement
  /\ journal \subseteq Entry
  /\ reversed \subseteq Key \X (0..MaxDepth)
  /\ outbox \in Seq(OutboxRow)
  /\ stream \in [Key -> Nat] /\ logged \subseteq Key
  /\ pc \in [Client -> PC] /\ DOMAIN arg = Client
  /\ \A c \in Client :
       /\ pc[c] \in {"post", "commit", "close"} => arg[c] \in Movement
       /\ pc[c] \in {"rcommit", "mark"} => arg[c] \in Entry /\ arg[c].depth < MaxDepth
  /\ tx \in [Client -> [moves: SUBSET Movement, entries: SUBSET Entry, events: Seq(Key)]]
  /\ torn \subseteq Key \X (0..MaxDepth) /\ doubled \subseteq Entry
  /\ rpc \in [Relay -> {"idle", "publish", "mark", "failed"}]
  /\ todo \in [Relay -> SUBSET DOMAIN outbox]
  /\ \A r \in Relay : (rpc[r] = "idle") <=> (todo[r] = {})
  /\ holding \subseteq Relay /\ rivals \subseteq Relay
  /\ errors \in 0..MaxErrors

\* No idempotency key is posted twice, not even as two identical rows (two
\* requests that reverse one entry), and no reference is booked for two funds
\* or types, whatever requests race and die (post_entry's ON CONFLICT and the
\* unique index of the source).
BookedOnce ==
  /\ \A e, f \in journal : SameSource(e, f) => e = f
  /\ doubled = {}

RowsOf(k) == {i \in DOMAIN outbox : outbox[i].key = k}

\* The entry of a movement, the movement itself and one outbox row appear in
\* one commit (record_unit_movement, "in the same transaction"): no entry
\* without its movement and its row, no row without an entry, and no movement
\* without its entry, with one exception. A movement may stand alone when its
\* reference was booked for another date, with that movement's entry and row.
BookedTogether ==
  /\ \A e \in journal : e.depth = 0 =>
       /\ \E m \in moves : MovementEntry(m) = e
       /\ Cardinality(RowsOf(e.key)) = 1
  /\ \A m \in moves :
       \/ MovementEntry(m) \in journal
       \/ \E n \in moves : n.date # m.date /\ KeyOf(n) = KeyOf(m) /\ MovementEntry(n) \in journal
  /\ \A i \in DOMAIN outbox : \E e \in journal : e.depth = 0 /\ e.key = outbox[i].key

EntriesOf(k) == {e \in journal : e.key = k}
Debits(e, a) == {l \in e.lines : l.account = a /\ l.debit > 0}
Credits(e, a) == {l \in e.lines : l.account = a /\ l.credit > 0}

\* Debit equals credit in every entry, and a movement reversed an odd number
\* of times has left every account where it was (reverse_entry swaps the sides
\* of the lines it read; validate_balanced never has to refuse an entry).
ReversalCancels ==
  /\ \A e \in journal :
       Cardinality({l \in e.lines : l.debit > 0}) = Cardinality({l \in e.lines : l.credit > 0})
  /\ \A k \in Key : Cardinality(EntriesOf(k)) % 2 = 0 =>
       \A l \in Line :
         Cardinality({e \in EntriesOf(k) : Debits(e, l.account) # {}})
           = Cardinality({e \in EntriesOf(k) : Credits(e, l.account) # {}})

\* The status agrees with the journal: an entry is REVERSED only when its
\* reversal is posted, and a posted reversal has its entry marked, but for a
\* request that is about to mark it or that died between the two commits of
\* reverse_entry and was not repeated.
StatusAgrees ==
  \A e \in journal :
    LET id == EntryId(e)
        marking == \E c \in Client : pc[c] = "mark" /\ SameKey(arg[c], e)
    IN  /\ id \in reversed => Posted(ReversalEntry(e))
        /\ Posted(ReversalEntry(e)) => id \in reversed \/ id \in torn \/ marking

\* Only events of committed entries reach the stream, and not more often than
\* the row was marked, is held by a relay that has not marked it, or a failure
\* hit it (FundNavOutboxRelayJob).
OnlyCommittedEvents ==
  \A k \in Key : stream[k] > 0 =>
    \E i \in RowsOf(k) :
      stream[k] <= outbox[i].attempts + errors
                     + Cardinality({r \in Relay : rpc[r] \in {"mark", "failed"} /\ Row(r) = i})

\* At-least-once: a row marked PUBLISHED, or given up as FAILED, reached the
\* stream or, where the XADD failed and _publish fell back, the log. No row is
\* marked before its event was handed over, whatever two relays do to it.
AtLeastOnce ==
  \A i \in DOMAIN outbox : outbox[i].status # "PENDING" =>
    stream[outbox[i].key] > 0 \/ outbox[i].key \in logged

\* A relay that runs alone never takes a PUBLISHED row back, whatever fails:
\* its mark_failed only meets rows that are still PENDING. It takes a row back
\* only where its pass overlapped another relay's, which published the row
\* after both had read it (mark_failed does not look at the status).
PublishedStays ==
  [][\A i \in DOMAIN outbox :
       outbox[i].status = "PUBLISHED" /\ outbox'[i].status # "PUBLISHED" =>
         \E r \in rivals : rpc[r] = "failed" /\ Row(r) = i]_vars

\* In the end every row is published or given up, and none is taken back:
\* after the last failure every pass that read a row settles it.
Relayed == <>[](\A i \in DOMAIN outbox : outbox[i].status # "PENDING")

\* A movement is recorded together with its double-entry document, "atomic and
\* idempotent" (record_unit_movement): each has an entry of its own date.
MovementBooked ==
  \A m \in moves : MovementEntry(m) \in journal
=============================================================================
