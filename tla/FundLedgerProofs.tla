-------------------------- MODULE FundLedgerProofs --------------------------
(***************************************************************************)
(* Proofs about the fund ledger and the relay of its outbox, for every set *)
(* of funds, references, requests and relays and every combination of      *)
(* faults.                                                                 *)
(***************************************************************************)
EXTENDS FundLedger, FiniteSetTheorems, WellFoundedInduction, TLAPS

-----------------------------------------------------------------------------
(* The inductive invariant. *)

\* What a session has written: a movement, a movement with its entry and its
\* outbox row, a reversal.
MovementTx(m) == [moves |-> {m}, entries |-> {}, events |-> <<>>]
BookedTx(m) == [moves |-> {m}, entries |-> {MovementEntry(m)}, events |-> <<KeyOf(m)>>]
ReversalTx(e) == [moves |-> {}, entries |-> {ReversalEntry(e)}, events |-> <<>>]

\* What the session of a request has written when the request is at each of
\* its steps, and what it knows of the journal there.
SessionAt(l, a, w) ==
  /\ l \in {"idle", "mark"} => w = EmptyTx
  /\ l \in {"post", "close"} => w = MovementTx(a)
  /\ l = "close" => Posted(MovementEntry(a))
  /\ l = "commit" => w = BookedTx(a)
  /\ l = "rcommit" => w = ReversalTx(a)
  /\ l \in {"rcommit", "mark"} => a \in journal
  /\ l = "mark" => Posted(ReversalEntry(a))

Session(c) == SessionAt(pc[c], arg[c], tx[c])
Sessions == \A c \in Client : Session(c)

\* An uncommitted entry has no source in common with a committed one, nor with
\* one of another session: the unique index made its INSERT wait.
Unique ==
  /\ BookedOnce
  /\ \A c \in Client : \A e \in tx[c].entries : \A f \in journal : ~SameSource(e, f)
  /\ \A c, d \in Client : c # d =>
       \A e \in tx[c].entries : \A f \in tx[d].entries : ~SameSource(e, f)

\* Every reversal has the entry it reverses, every movement's entry its
\* movement and its one outbox row, and the other way round.
Together ==
  /\ \A e \in journal : e.depth = 0 => \E m \in moves : MovementEntry(m) = e
  /\ \A e \in journal : e.depth = 0 => \E i \in DOMAIN outbox : outbox[i].key = e.key
  /\ \A m \in moves : \E e \in journal : e.depth = 0 /\ e.key = KeyOf(m)
  /\ \A i \in DOMAIN outbox : \E e \in journal : e.depth = 0 /\ e.key = outbox[i].key
  /\ \A i, j \in DOMAIN outbox : outbox[i].key = outbox[j].key => i = j

Chained == \A e \in journal : e.depth # 0 => \E f \in journal : e = ReversalEntry(f)

\* A REVERSED status has its reversal in the journal.
Status ==
  /\ \A id \in reversed : \E f \in journal : EntryId(f) = <<id[1], id[2] + 1>>
  /\ StatusAgrees

IInv == TypeOK /\ Sessions /\ Unique /\ Together /\ Chained /\ Status

\* A relay past the XADD has handed the event of its row over.
Handed(k) == stream[k] > 0 \/ k \in logged
HandedOver ==
  /\ AtLeastOnce
  /\ \A r \in Relay : rpc[r] \in {"mark", "failed"} => Handed(outbox[Row(r)].key)

\* The relays past the XADD of row i.
Holders(i) == {r \in Relay : rpc[r] \in {"mark", "failed"} /\ Row(r) = i}
StreamBound ==
  /\ \A k \in Key : stream[k] > 0 => RowsOf(k) # {}
  /\ \A i \in DOMAIN outbox :
       stream[outbox[i].key] <= outbox[i].attempts + errors + Cardinality(Holders(i))

Even(k) == {e \in EntriesOf(k) : e.depth % 2 = 0}
Odd(k) == {e \in EntriesOf(k) : e.depth % 2 = 1}

\* The lines of the entry of a movement after this many reversals.
Sides(type, depth) ==
  IF depth % 2 = 0 THEN build_unit_movement_lines(type)
  ELSE ReversedLines(build_unit_movement_lines(type))

\* The entries of a key are numbered from 0 by their depths, and the sides of
\* an entry's lines follow from the parity of its depth.
Numbered ==
  /\ \A k \in Key :
       /\ IsFiniteSet(EntriesOf(k))
       /\ \A e \in EntriesOf(k) : e.depth < Cardinality(EntriesOf(k))
       /\ \A j \in Nat : j < Cardinality(EntriesOf(k)) =>
            \E e \in EntriesOf(k) : e.depth = j
       /\ Cardinality(Even(k)) =
            Cardinality(Odd(k)) + (IF Cardinality(EntriesOf(k)) % 2 = 0 THEN 0 ELSE 1)
  /\ \A e \in journal : e.lines = Sides(e.key.type, e.depth)

-----------------------------------------------------------------------------
(* Entries and their lines. *)

\* The account names a line may have.
AccountName == {Accounts[t][i] : t \in DOMAIN Accounts, i \in 1..2}

\* UNIT_MOVEMENT_ACCOUNTS has two accounts for every movement type.
LEMMA AccountsType ==
  ASSUME NEW t \in DOMAIN Accounts
  PROVE  Accounts[t][1] \in AccountName /\ Accounts[t][2] \in AccountName
<1>1. 1 \in 1..2 /\ 2 \in 1..2
  OBVIOUS
<1> QED BY <1>1 DEF AccountName

\* The lines of a movement's entry are lines (build_unit_movement_lines).
LEMMA BuildType ==
  ASSUME NEW t \in Type
  PROVE  build_unit_movement_lines(t) \subseteq Line
<1>1. t \in DOMAIN Accounts
  BY TypeAssumption
<1>2. Accounts[t][1] \in AccountName /\ Accounts[t][2] \in AccountName
  BY <1>1, AccountsType
<1> DEFINE dr == Accounts[t][1]
           cr == Accounts[t][2]
<1> HIDE DEF dr, cr
<1>3. build_unit_movement_lines(t) =
        IF dr = cr
          THEN {[account |-> dr, debit |-> 0, credit |-> 0]}
          ELSE {[account |-> dr, debit |-> 1, credit |-> 0],
                [account |-> cr, debit |-> 0, credit |-> 1]}
  BY DEF build_unit_movement_lines, dr, cr
<1>4. dr \in AccountName /\ cr \in AccountName
  BY <1>2 DEF dr, cr
<1>5. Line = [account: AccountName, debit: {0, 1}, credit: {0, 1}]
  BY DEF Line, AccountName
<1> QED BY <1>3, <1>4, <1>5

\* Swapping the sides of lines gives lines.
LEMMA ReversedType ==
  ASSUME NEW lines \in SUBSET Line
  PROVE  ReversedLines(lines) \subseteq Line
BY DEF ReversedLines, Line

\* A movement's key, and its entry, have the shape of the rows.
LEMMA MovementEntryType ==
  ASSUME NEW m \in Movement
  PROVE  KeyOf(m) \in Key /\ MovementEntry(m) \in Entry
<1>1. KeyOf(m) \in Key /\ m.date \in Date /\ m.type \in Type
  BY DEF KeyOf, Key, Movement
<1>2. build_unit_movement_lines(m.type) \in SUBSET Line
  BY <1>1, BuildType
<1>3. 0 \in 0..MaxDepth
  BY BoundAssumption
<1> QED BY <1>1, <1>2, <1>3 DEF MovementEntry, Entry

\* A reversal has the key of its entry, the next depth and the swapped lines.
LEMMA ReversalFields ==
  ASSUME NEW e \in Entry
  PROVE  /\ ReversalEntry(e).key = e.key /\ ReversalEntry(e).depth = e.depth + 1
         /\ ReversalEntry(e).date = e.date /\ ReversalEntry(e).lines = ReversedLines(e.lines)
         /\ ReversalEntry(e) \in [key: Key, depth: Nat, date: Date, lines: SUBSET Line]
<1>1. e.lines \in SUBSET Line /\ e.depth \in 0..MaxDepth /\ e.key \in Key /\ e.date \in Date
  BY DEF Entry
<1>2. ReversedLines(e.lines) \in SUBSET Line
  BY <1>1, ReversedType
<1> DEFINE l == ReversedLines(e.lines)
           n == e.depth + 1
<1>3. ReversalEntry(e) = [e EXCEPT !.depth = n, !.lines = l]
  BY DEF ReversalEntry
<1>4. l \in SUBSET Line /\ n \in Nat
  BY <1>1, <1>2, BoundAssumption
<1> HIDE DEF l, n
<1>5. /\ ReversalEntry(e).key = e.key /\ ReversalEntry(e).depth = n
      /\ ReversalEntry(e).date = e.date /\ ReversalEntry(e).lines = l
      /\ ReversalEntry(e) \in [key: Key, depth: Nat, date: Date, lines: SUBSET Line]
  BY <1>1, <1>3, <1>4 DEF Entry
<1> QED BY <1>5 DEF l, n

\* It has the shape of a row while its depth is allowed.
LEMMA ReversalEntryType ==
  ASSUME NEW e \in Entry, e.depth < MaxDepth
  PROVE  ReversalEntry(e) \in Entry
<1>1. e.depth \in 0..MaxDepth
  BY DEF Entry
<1>2. e.depth + 1 \in 0..MaxDepth
  BY <1>1, BoundAssumption
<1> QED BY <1>2, ReversalFields DEF Entry

-----------------------------------------------------------------------------
(* Types. *)

Tx == [moves: SUBSET Movement, entries: SUBSET Entry, events: Seq(Key)]

\* A session that wrote nothing is a session.
LEMMA EmptyTxType == EmptyTx \in Tx
<1>1. <<>> \in Seq(Key)
  OBVIOUS
<1> QED BY <1>1 DEF EmptyTx, Tx

\* The tables are empty and nobody is at work at the start.
LEMMA TypeInit == Init => TypeOK
<1> SUFFICES ASSUME Init PROVE TypeOK
  OBVIOUS
<1>1. outbox \in Seq(OutboxRow)
  BY DEF Init
<1>2. tx \in [Client -> Tx]
  BY EmptyTxType DEF Init
<1> QED BY <1>1, <1>2, BoundAssumption DEF Init, TypeOK, PC, Tx

\* The least id of a set of ids is one of them (ORDER BY id).
LEMMA LeastId ==
  ASSUME NEW T \in SUBSET Nat, T # {}
  PROVE  (CHOOSE i \in T : \A j \in T : i <= j) \in T
<1>1. \E x \in T : \A y \in T : ~ (<<y, x>> \in OpToRel(<, Nat))
  BY NatLessThanWellFounded, WFMin
<1>2. ASSUME NEW x \in T, NEW y \in T, ~ (<<y, x>> \in OpToRel(<, Nat)) PROVE x <= y
  BY <1>2 DEF OpToRel
<1>3. \E x \in T : \A y \in T : x <= y
  BY <1>1, <1>2
<1> QED BY <1>3

\* A relay that is not idle is at a row of the outbox it has read.
LEMMA RowType ==
  ASSUME TypeOK, NEW r \in Relay, rpc[r] # "idle"
  PROVE  Row(r) \in todo[r] /\ Row(r) \in DOMAIN outbox /\ Row(r) \in Nat
<1>1. todo[r] \subseteq DOMAIN outbox /\ todo[r] # {}
  BY DEF TypeOK
<1>2. DOMAIN outbox = 1..Len(outbox) /\ Len(outbox) \in Nat
  BY DEF TypeOK
<1>3. todo[r] \in SUBSET Nat
  BY <1>1, <1>2
<1>4. Row(r) \in todo[r]
  BY <1>1, <1>3, LeastId DEF Row
<1> QED BY <1>1, <1>3, <1>4

\* The rows a commit appends are PENDING rows with the session's keys.
LEMMA EventRows ==
  ASSUME NEW events \in Seq(Key)
  PROVE  [i \in DOMAIN events |-> [key |-> events[i], status |-> "PENDING", attempts |-> 0]]
           \in Seq(OutboxRow)
<1>1. DOMAIN events = 1..Len(events) /\ Len(events) \in Nat
      /\ \A i \in 1..Len(events) : events[i] \in Key
  OBVIOUS
<1>2. \A i \in 1..Len(events) :
        [key |-> events[i], status |-> "PENDING", attempts |-> 0] \in OutboxRow
  BY <1>1 DEF OutboxRow
<1> QED BY <1>1, <1>2

\* A commit keeps the shape of the tables, and no row of the outbox is lost.
LEMMA CommitType ==
  ASSUME TypeOK, NEW c \in Client, Commit(c)
  PROVE  /\ moves' \subseteq Movement /\ journal' \subseteq Entry /\ doubled' \subseteq Entry
         /\ outbox' \in Seq(OutboxRow) /\ DOMAIN outbox \subseteq DOMAIN outbox'
         /\ \A i \in DOMAIN outbox : outbox'[i] = outbox[i]
         /\ tx' \in [Client -> Tx]
<1> DEFINE new == [i \in DOMAIN tx[c].events |->
                     [key |-> tx[c].events[i], status |-> "PENDING", attempts |-> 0]]
<1>1. tx \in [Client -> Tx] /\ tx[c].moves \subseteq Movement /\ tx[c].entries \subseteq Entry
      /\ tx[c].events \in Seq(Key)
  BY DEF TypeOK, Tx
<1>2. new \in Seq(OutboxRow)
  BY <1>1, EventRows
<1>3. outbox \in Seq(OutboxRow) /\ moves \subseteq Movement /\ journal \subseteq Entry
      /\ doubled \subseteq Entry
  BY DEF TypeOK
<1>4. outbox' = outbox \o new /\ moves' = moves \cup tx[c].moves
      /\ journal' = journal \cup tx[c].entries /\ tx' = [tx EXCEPT ![c] = EmptyTx]
      /\ doubled' = doubled \cup (journal \cap tx[c].entries)
  BY DEF Commit
<1> HIDE DEF new
<1>5. outbox' \in Seq(OutboxRow)
  BY <1>2, <1>3, <1>4
<1>6. DOMAIN outbox \subseteq DOMAIN outbox' /\ \A i \in DOMAIN outbox : outbox'[i] = outbox[i]
  BY <1>2, <1>3, <1>4
<1>7. tx' \in [Client -> Tx]
  BY <1>1, <1>4, EmptyTxType
<1> QED BY <1>1, <1>3, <1>4, <1>5, <1>6, <1>7

\* What post_entry does to its session, and where it goes.
LEMMA PostType ==
  ASSUME TypeOK, NEW c \in Client, NEW a, NEW e \in Entry, NEW events \in Seq(Key),
         NEW new, NEW known, post_entry(c, a, e, events, new, known)
  PROVE  /\ tx' \in [Client -> Tx]
         /\ \/ pc' = [pc EXCEPT ![c] = new] /\ arg' = [arg EXCEPT ![c] = a]
            \/ pc' = [pc EXCEPT ![c] = known] /\ arg' = [arg EXCEPT ![c] = a]
            \/ pc' = [pc EXCEPT ![c] = "idle"] /\ arg' = [arg EXCEPT ![c] = <<>>]
<1>1. tx \in [Client -> Tx] /\ tx[c].entries \subseteq Entry /\ tx[c].events \in Seq(Key)
  BY DEF TypeOK, Tx
<1>2. tx[c].events \o events \in Seq(Key) /\ tx[c].entries \cup {e} \in SUBSET Entry
  BY <1>1
<1>3. Insert(tx[c], e, events) \in Tx
  <2> DEFINE s == tx[c].events \o events
             u == tx[c].entries \cup {e}
  <2>1. Insert(tx[c], e, events) = [tx[c] EXCEPT !.entries = u, !.events = s]
    BY DEF Insert
  <2>2. s \in Seq(Key) /\ u \in SUBSET Entry /\ tx[c] \in Tx
    BY <1>1, <1>2
  <2> HIDE DEF s, u
  <2> QED BY <2>1, <2>2 DEF Tx
<1>4. \/ tx' = tx
      \/ tx' = [tx EXCEPT ![c] = Insert(tx[c], e, events)]
      \/ tx' = [tx EXCEPT ![c] = EmptyTx]
  BY DEF post_entry
<1>5. tx' \in [Client -> Tx]
  BY <1>1, <1>3, <1>4, EmptyTxType
<1>6. \/ pc' = [pc EXCEPT ![c] = new] /\ arg' = [arg EXCEPT ![c] = a]
      \/ pc' = [pc EXCEPT ![c] = known] /\ arg' = [arg EXCEPT ![c] = a]
      \/ pc' = [pc EXCEPT ![c] = "idle"] /\ arg' = [arg EXCEPT ![c] = <<>>]
  BY DEF post_entry, Goto, Done
<1> QED BY <1>5, <1>6

\* The argument of a request is what its step needs: a movement to post, or an
\* entry whose reversal may still be posted.
Argument(c) ==
  /\ pc[c] \in {"post", "commit", "close"} => arg[c] \in Movement
  /\ pc[c] \in {"rcommit", "mark"} => arg[c] \in Entry /\ arg[c].depth < MaxDepth

\* The part of the types that the steps of requests may change.
ClientType ==
  /\ moves \subseteq Movement /\ journal \subseteq Entry
  /\ reversed \subseteq Key \X (0..MaxDepth)
  /\ outbox \in Seq(OutboxRow)
  /\ pc \in [Client -> PC] /\ DOMAIN arg = Client
  /\ \A c \in Client : Argument(c)
  /\ tx \in [Client -> Tx]
  /\ torn \subseteq Key \X (0..MaxDepth) /\ doubled \subseteq Entry

\* The part that the steps of relays may change.
RelayType ==
  /\ outbox \in Seq(OutboxRow)
  /\ stream \in [Key -> Nat] /\ logged \subseteq Key
  /\ rpc \in [Relay -> {"idle", "publish", "mark", "failed"}]
  /\ todo \in [Relay -> SUBSET DOMAIN outbox]
  /\ \A r \in Relay : (rpc[r] = "idle") <=> (todo[r] = {})
  /\ holding \subseteq Relay /\ rivals \subseteq Relay
  /\ errors \in 0..MaxErrors

\* TypeOK is the two parts.
LEMMA TypeParts == TypeOK <=> ClientType /\ RelayType
BY DEF TypeOK, ClientType, RelayType, Tx, Argument

LEMMA TypePartsNext == ClientType' /\ RelayType' => TypeOK'
BY DEF TypeOK, ClientType, RelayType, Tx, Argument

\* A request that went to a step with the right argument keeps the arguments.
LEMMA ArgumentNext ==
  ASSUME ClientType, NEW c \in Client, NEW l \in PC, NEW a,
         pc' = [pc EXCEPT ![c] = l], arg' = [arg EXCEPT ![c] = a],
         l \in {"post", "commit", "close"} => a \in Movement,
         l \in {"rcommit", "mark"} => a \in Entry /\ a.depth < MaxDepth
  PROVE  /\ pc' \in [Client -> PC] /\ DOMAIN arg' = Client
         /\ \A d \in Client : Argument(d)'
<1>1. pc' \in [Client -> PC] /\ DOMAIN arg' = Client
  BY DEF ClientType
<1>2. ASSUME NEW d \in Client PROVE Argument(d)'
  <2>1. CASE d = c
    <3>1. pc'[d] = l /\ arg'[d] = a
      BY <2>1 DEF ClientType
    <3> QED BY <3>1 DEF Argument
  <2>2. CASE d # c
    <3>1. pc'[d] = pc[d] /\ arg'[d] = arg[d] /\ Argument(d)
      BY <2>2 DEF ClientType
    <3> QED BY <3>1 DEF Argument
  <2> QED BY <2>1, <2>2
<1> QED BY <1>1, <1>2

\* A step of a request keeps the shape of the tables and of the sessions.
LEMMA ClientTypeNext ==
  ASSUME TypeOK, NEW c \in Client, ClientNext(c)
  PROVE  ClientType' /\ DOMAIN outbox \subseteq DOMAIN outbox'
<1>t. ClientType /\ tx \in [Client -> Tx]
  BY TypeParts DEF ClientType
<1>p. "idle" \in PC /\ "post" \in PC /\ "mark" \in PC /\ "close" \in PC
      /\ "commit" \in PC /\ "rcommit" \in PC
  BY DEF PC
<1>1. ASSUME NEW m \in Movement, record_unit_movement(c, m)
      PROVE  ClientType' /\ outbox' = outbox
  <2>1. outbox' = outbox /\ moves' = moves /\ journal' = journal /\ reversed' = reversed /\ torn' = torn
        /\ doubled' = doubled
    BY <1>1 DEF record_unit_movement, ledgerVars
  <2>2. CASE pc' = [pc EXCEPT ![c] = "idle"] /\ arg' = arg /\ tx' = tx
    <3>2. /\ pc' \in [Client -> PC] /\ DOMAIN arg' = Client
          /\ \A d \in Client : Argument(d)'
      BY <1>t, <1>p, <2>2 DEF ClientType, Argument
    <3> QED BY <3>2, <2>2, <2>1, <1>t DEF ClientType
  <2>3. CASE pc' = [pc EXCEPT ![c] = "post"] /\ arg' = [arg EXCEPT ![c] = m]
             /\ tx' = [tx EXCEPT ![c].moves = {m}]
    <3>1. /\ pc' \in [Client -> PC] /\ DOMAIN arg' = Client
          /\ \A d \in Client : Argument(d)'
      BY <1>t, <1>p, <2>3, ArgumentNext
    <3>2. tx' \in [Client -> Tx]
      BY <1>t, <2>3 DEF Tx
    <3> QED BY <3>1, <3>2, <2>1, <1>t DEF ClientType
  <2> QED BY <1>1, <2>1, <2>2, <2>3 DEF record_unit_movement, Goto
<1>2. CASE PostMovement(c)
  <2>1. outbox' = outbox /\ moves' = moves /\ journal' = journal /\ reversed' = reversed /\ torn' = torn
        /\ doubled' = doubled
    BY <1>2 DEF PostMovement, ledgerVars
  <2>2. arg[c] \in Movement
    BY <1>2, <1>t DEF PostMovement, ClientType, Argument
  <2>3. MovementEntry(arg[c]) \in Entry /\ <<KeyOf(arg[c])>> \in Seq(Key)
    BY <2>2, MovementEntryType
  <2>4. post_entry(c, arg[c], MovementEntry(arg[c]), <<KeyOf(arg[c])>>, "commit", "close")
    BY <1>2 DEF PostMovement
  <2>5. tx' \in [Client -> Tx]
    BY <2>3, <2>4, PostType
  <2>6. \/ pc' = [pc EXCEPT ![c] = "commit"] /\ arg' = [arg EXCEPT ![c] = arg[c]]
        \/ pc' = [pc EXCEPT ![c] = "close"] /\ arg' = [arg EXCEPT ![c] = arg[c]]
        \/ pc' = [pc EXCEPT ![c] = "idle"] /\ arg' = [arg EXCEPT ![c] = <<>>]
    BY <2>3, <2>4, PostType
  <2>7. /\ pc' \in [Client -> PC] /\ DOMAIN arg' = Client
        /\ \A d \in Client : Argument(d)'
    BY <2>2, <2>6, <1>t, <1>p, ArgumentNext
  <2> QED BY <2>1, <2>5, <2>7, <1>t DEF ClientType
<1>3. CASE CommitMovement(c)
  <2>1. Commit(c) /\ reversed' = reversed /\ torn' = torn
    BY <1>3 DEF CommitMovement
  <2>2. pc' = [pc EXCEPT ![c] = "idle"] /\ arg' = [arg EXCEPT ![c] = <<>>]
    BY <1>3 DEF CommitMovement, Done, Goto
  <2>3. /\ pc' \in [Client -> PC] /\ DOMAIN arg' = Client
        /\ \A d \in Client : Argument(d)'
    BY <2>2, <1>t, <1>p, ArgumentNext
  <2> QED BY <2>1, <2>3, <1>t, CommitType DEF ClientType
<1>4. CASE CommitReversal(c)
  <2>1. Commit(c) /\ reversed' = reversed /\ torn' = torn /\ arg' = arg
    BY <1>4 DEF CommitReversal
  <2>2. pc' = [pc EXCEPT ![c] = "mark"] /\ pc[c] = "rcommit"
    BY <1>4 DEF CommitReversal, Goto
  <2>3. /\ pc' \in [Client -> PC] /\ DOMAIN arg' = Client
        /\ \A d \in Client : Argument(d)'
    BY <2>1, <2>2, <1>t, <1>p DEF ClientType, Argument
  <2> QED BY <2>1, <2>3, <1>t, CommitType DEF ClientType
<1>5. ASSUME NEW e \in journal, reverse_entry(c, e)
      PROVE  ClientType' /\ outbox' = outbox
  <2>1. outbox' = outbox /\ moves' = moves /\ journal' = journal /\ reversed' = reversed /\ torn' = torn
        /\ doubled' = doubled
    BY <1>5 DEF reverse_entry, ledgerVars
  <2>2. e \in Entry /\ e.depth < MaxDepth
    BY <1>5, <1>t DEF reverse_entry, ClientType
  <2>3. ReversalEntry(e) \in Entry /\ <<>> \in Seq(Key)
    BY <2>2, ReversalEntryType
  <2>4. post_entry(c, e, ReversalEntry(e), <<>>, "rcommit", "mark")
    BY <1>5 DEF reverse_entry
  <2>5. tx' \in [Client -> Tx]
    BY <2>3, <2>4, PostType
  <2>6. \/ pc' = [pc EXCEPT ![c] = "rcommit"] /\ arg' = [arg EXCEPT ![c] = e]
        \/ pc' = [pc EXCEPT ![c] = "mark"] /\ arg' = [arg EXCEPT ![c] = e]
        \/ pc' = [pc EXCEPT ![c] = "idle"] /\ arg' = [arg EXCEPT ![c] = <<>>]
    BY <2>3, <2>4, PostType
  <2>7. /\ pc' \in [Client -> PC] /\ DOMAIN arg' = Client
        /\ \A d \in Client : Argument(d)'
    BY <2>2, <2>6, <1>t, <1>p, ArgumentNext
  <2> QED BY <2>1, <2>5, <2>7, <1>t DEF ClientType
<1>6. CASE MarkReversed(c)
  <2>1. outbox' = outbox /\ moves' = moves /\ journal' = journal /\ tx' = tx
        /\ doubled' = doubled
    BY <1>6 DEF MarkReversed
  <2>2. arg[c] \in Entry
    BY <1>6, <1>t DEF MarkReversed, ClientType, Argument
  <2>3. EntryId(arg[c]) \in Key \X (0..MaxDepth)
    BY <2>2 DEF EntryId, Entry
  <2>4. reversed' \subseteq Key \X (0..MaxDepth) /\ torn' \subseteq Key \X (0..MaxDepth)
    BY <2>3, <1>6, <1>t DEF MarkReversed, ClientType
  <2>5. pc' = [pc EXCEPT ![c] = "idle"] /\ arg' = [arg EXCEPT ![c] = <<>>]
    BY <1>6 DEF MarkReversed, Done, Goto
  <2>6. /\ pc' \in [Client -> PC] /\ DOMAIN arg' = Client
        /\ \A d \in Client : Argument(d)'
    BY <2>5, <1>t, <1>p, ArgumentNext
  <2> QED BY <2>1, <2>4, <2>6, <1>t DEF ClientType
<1>7. CASE Abort(c)
  <2>1. outbox' = outbox /\ moves' = moves /\ journal' = journal /\ reversed' = reversed
        /\ doubled' = doubled
    BY <1>7 DEF Abort, ledgerVars
  <2>2. pc[c] = "mark" => EntryId(arg[c]) \in Key \X (0..MaxDepth)
    BY <1>t DEF EntryId, Entry, ClientType, Argument
  <2>3. torn' \subseteq Key \X (0..MaxDepth)
    BY <2>2, <1>7, <1>t DEF Abort, ClientType
  <2>4. pc' = [pc EXCEPT ![c] = "idle"] /\ arg' = [arg EXCEPT ![c] = <<>>]
    BY <1>7 DEF Abort, Done, Goto
  <2>5. /\ pc' \in [Client -> PC] /\ DOMAIN arg' = Client
        /\ \A d \in Client : Argument(d)'
    BY <2>4, <1>t, <1>p, ArgumentNext
  <2>6. tx' \in [Client -> Tx]
    BY <1>7, <1>t, EmptyTxType DEF Abort
  <2> QED BY <2>1, <2>3, <2>5, <2>6, <1>t DEF ClientType
<1>8. TypeOK /\ (CommitMovement(c) \/ CommitReversal(c)) => DOMAIN outbox \subseteq DOMAIN outbox'
  BY CommitType DEF CommitMovement, CommitReversal
<1>9. DOMAIN outbox \subseteq DOMAIN outbox'
  BY <1>1, <1>2, <1>5, <1>6, <1>7, <1>8, RequestAssumption
     DEF ClientNext, PostMovement, MarkReversed, Abort
<1> QED BY <1>1, <1>2, <1>3, <1>4, <1>5, <1>6, <1>7, <1>9, RequestAssumption DEF ClientNext

\* A marked row is a row with the new status and one attempt more.
LEMMA AttemptedType ==
  ASSUME NEW row \in OutboxRow, NEW status \in {"PENDING", "PUBLISHED", "FAILED"}
  PROVE  /\ Attempted(row, status) \in OutboxRow
         /\ Attempted(row, status).key = row.key /\ Attempted(row, status).status = status
         /\ Attempted(row, status).attempts = row.attempts + 1
<1>1. row.attempts + 1 \in Nat
  BY DEF OutboxRow
<1>2. Attempted(row, status) = [row EXCEPT !.status = status, !.attempts = row.attempts + 1]
  BY DEF Attempted
<1> DEFINE n == row.attempts + 1
<1> HIDE DEF n
<1>3. [row EXCEPT !.status = status, !.attempts = n] \in OutboxRow
  BY <1>1 DEF OutboxRow, n
<1>4. /\ [row EXCEPT !.status = status, !.attempts = n].key = row.key
      /\ [row EXCEPT !.status = status, !.attempts = n].status = status
      /\ [row EXCEPT !.status = status, !.attempts = n].attempts = n
  BY DEF OutboxRow
<1> QED BY <1>2, <1>3, <1>4 DEF n

\* Marking a row of the outbox changes its status and counts the attempt.
LEMMA SetRowType ==
  ASSUME TypeOK, NEW i \in DOMAIN outbox,
         NEW status \in {"PENDING", "PUBLISHED", "FAILED"}, SetRow(i, status)
  PROVE  /\ outbox' \in Seq(OutboxRow) /\ DOMAIN outbox' = DOMAIN outbox
         /\ Len(outbox') = Len(outbox)
         /\ \A j \in DOMAIN outbox : j # i => outbox'[j] = outbox[j]
         /\ outbox'[i].key = outbox[i].key /\ outbox'[i].status = status
         /\ outbox'[i].attempts = outbox[i].attempts + 1
<1>1. outbox \in Seq(OutboxRow) /\ outbox[i] \in OutboxRow
  BY DEF TypeOK
<1> DEFINE row == Attempted(outbox[i], status)
<1>2. row \in OutboxRow /\ row.key = outbox[i].key /\ row.status = status
      /\ row.attempts = outbox[i].attempts + 1
  BY <1>1, AttemptedType
<1>3. outbox' = [outbox EXCEPT ![i] = row]
  BY DEF SetRow
<1> HIDE DEF row
<1>4. outbox' \in Seq(OutboxRow) /\ DOMAIN outbox' = DOMAIN outbox /\ Len(outbox') = Len(outbox)
      /\ outbox'[i] = row /\ \A j \in DOMAIN outbox : j # i => outbox'[j] = outbox[j]
  BY <1>1, <1>2, <1>3
<1> QED BY <1>2, <1>4

\* Ending the pass keeps the shape of a relay.
LEMMA EndPassType ==
  ASSUME TypeOK, NEW r \in Relay, EndPass(r), DOMAIN outbox' = DOMAIN outbox
  PROVE  /\ rpc' \in [Relay -> {"idle", "publish", "mark", "failed"}]
         /\ todo' \in [Relay -> SUBSET DOMAIN outbox']
         /\ \A y \in Relay : (rpc'[y] = "idle") <=> (todo'[y] = {})
         /\ holding' \subseteq Relay /\ rivals' \subseteq Relay
<1>1. /\ rpc \in [Relay -> {"idle", "publish", "mark", "failed"}]
      /\ todo \in [Relay -> SUBSET DOMAIN outbox]
      /\ \A y \in Relay : (rpc[y] = "idle") <=> (todo[y] = {})
      /\ holding \subseteq Relay /\ rivals \subseteq Relay
  BY DEF TypeOK
<1>2. todo' = [todo EXCEPT ![r] = {}] /\ rpc' = [rpc EXCEPT ![r] = "idle"]
      /\ holding' = holding \ {r} /\ rivals' = rivals \ {r}
  BY DEF EndPass
<1>3. /\ rpc' \in [Relay -> {"idle", "publish", "mark", "failed"}]
      /\ todo' \in [Relay -> SUBSET DOMAIN outbox']
  BY <1>1, <1>2
<1>4. ASSUME NEW y \in Relay PROVE (rpc'[y] = "idle") <=> (todo'[y] = {})
  <2>1. CASE y = r
    BY <1>1, <1>2, <2>1
  <2>2. CASE y # r
    <3>1. rpc'[y] = rpc[y] /\ todo'[y] = todo[y]
      BY <1>1, <1>2, <2>2
    <3>2. rpc[y] = "idle" <=> todo[y] = {}
      BY DEF TypeOK
    <3> QED BY <3>1, <3>2
  <2> QED BY <2>1, <2>2
<1>5. holding' \subseteq Relay /\ rivals' \subseteq Relay
  BY <1>1, <1>2
<1> QED BY <1>3, <1>4, <1>5

\* Going to the next row, or ending the pass, keeps the shape of a relay.
LEMMA NextRowType ==
  ASSUME TypeOK, NEW r \in Relay, rpc[r] # "idle", NextRow(r),
         DOMAIN outbox' = DOMAIN outbox
  PROVE  /\ rpc' \in [Relay -> {"idle", "publish", "mark", "failed"}]
         /\ todo' \in [Relay -> SUBSET DOMAIN outbox']
         /\ \A y \in Relay : (rpc'[y] = "idle") <=> (todo'[y] = {})
         /\ holding' \subseteq Relay /\ rivals' \subseteq Relay
<1>1. Row(r) \in todo[r]
  BY RowType
<1>2. CASE EndPass(r)
  BY <1>2, EndPassType
<1>3. CASE ~EndPass(r)
  <2>1. /\ todo[r] # {Row(r)}
        /\ todo' = [todo EXCEPT ![r] = todo[r] \ {Row(r)}]
        /\ rpc' = [rpc EXCEPT ![r] = "publish"]
        /\ holding' = holding \ {r} /\ rivals' = rivals
    BY <1>3 DEF NextRow
  <2>2. /\ rpc \in [Relay -> {"idle", "publish", "mark", "failed"}]
        /\ todo \in [Relay -> SUBSET DOMAIN outbox]
        /\ \A y \in Relay : (rpc[y] = "idle") <=> (todo[y] = {})
        /\ holding \subseteq Relay /\ rivals \subseteq Relay
    BY DEF TypeOK
  <2>3. todo[r] \ {Row(r)} # {}
    BY <1>1, <2>1
  <2>4. /\ rpc' \in [Relay -> {"idle", "publish", "mark", "failed"}]
        /\ todo' \in [Relay -> SUBSET DOMAIN outbox']
    BY <2>1, <2>2
  <2>5. ASSUME NEW y \in Relay PROVE (rpc'[y] = "idle") <=> (todo'[y] = {})
    <3>1. CASE y = r
      <4>1. rpc'[y] = "publish" /\ todo'[y] = todo[r] \ {Row(r)}
        BY <2>1, <2>2, <3>1
      <4> QED BY <2>3, <4>1
    <3>2. CASE y # r
      <4>1. rpc'[y] = rpc[y] /\ todo'[y] = todo[y]
        BY <2>1, <2>2, <3>2
      <4>2. rpc[y] = "idle" <=> todo[y] = {}
        BY DEF TypeOK
      <4> QED BY <4>1, <4>2
    <3> QED BY <3>1, <3>2
  <2>6. holding' \subseteq Relay /\ rivals' \subseteq Relay
    BY <2>1, <2>2
  <2> QED BY <2>4, <2>5, <2>6
<1> QED BY <1>2, <1>3

\* The status mark_failed writes.
LEMMA FailedStatusType == \A i : FailedStatus(i) \in {"PENDING", "FAILED"}
BY DEF FailedStatus

\* A step of a relay keeps the shape of the relays and of the outbox.
LEMMA RelayTypeNext ==
  ASSUME TypeOK, NEW r \in Relay, RelayNext(r)
  PROVE  RelayType'
<1>t. RelayType
  BY TypeParts
<1>f. \A kind : Fail(kind) => errors' \in 0..MaxErrors
  BY <1>t, BoundAssumption DEF Fail, RelayType
<1>1. CASE execute(r)
  <2>1. outbox' = outbox /\ stream' = stream /\ logged' = logged /\ errors' = errors
    BY <1>1 DEF execute
  <2>2. pending_outbox \subseteq DOMAIN outbox /\ pending_outbox # {}
    BY <1>1 DEF execute, pending_outbox
  <2>3. todo' = [todo EXCEPT ![r] = pending_outbox] /\ rpc' = [rpc EXCEPT ![r] = "publish"]
    BY <1>1 DEF execute
  <2>4. holding' \subseteq Relay /\ rivals' \subseteq Relay
    BY <1>1, <1>t DEF execute, Running, RelayType
  <2> QED BY <2>1, <2>2, <2>3, <2>4, <1>t DEF RelayType
<1>2. CASE publish(r)
  <2>1. outbox' = outbox /\ todo' = todo /\ rpc' = [rpc EXCEPT ![r] = "mark"] /\ rpc[r] = "publish"
        /\ holding' = holding /\ rivals' = rivals
    BY <1>2 DEF publish
  <2>2. Row(r) \in DOMAIN outbox
    BY <2>1, RowType
  <2>3. outbox[Row(r)].key \in Key
    <3>1. outbox[Row(r)] \in OutboxRow
      BY <2>2, <1>t DEF RelayType
    <3> QED BY <3>1 DEF OutboxRow
  <2>4. stream' \in [Key -> Nat] /\ logged' \subseteq Key /\ errors' \in 0..MaxErrors
    BY <1>2, <1>f, <2>3, <1>t DEF publish, RelayType
  <2> QED BY <2>1, <2>4, <1>t DEF RelayType
<1>3. CASE mark_published(r)
  <2>1. SetRow(Row(r), "PUBLISHED") /\ NextRow(r) /\ rpc[r] = "mark"
        /\ stream' = stream /\ logged' = logged /\ errors' = errors
    BY <1>3 DEF mark_published
  <2>2. Row(r) \in DOMAIN outbox
    BY <2>1, RowType
  <2>3. outbox' \in Seq(OutboxRow) /\ DOMAIN outbox' = DOMAIN outbox
    BY <2>1, <2>2, SetRowType
  <2> QED BY <2>1, <2>3, NextRowType, <1>t DEF RelayType
<1>4. CASE mark_failed(r)
  <2>1. SetRow(Row(r), FailedStatus(Row(r))) /\ NextRow(r) /\ rpc[r] = "failed"
        /\ stream' = stream /\ logged' = logged /\ errors' = errors
    BY <1>4 DEF mark_failed
  <2>2. Row(r) \in DOMAIN outbox
    BY <2>1, RowType
  <2>3. outbox' \in Seq(OutboxRow) /\ DOMAIN outbox' = DOMAIN outbox
    BY <2>1, <2>2, SetRowType, FailedStatusType
  <2> QED BY <2>1, <2>3, NextRowType, <1>t DEF RelayType
<1>5. CASE ConnectRaises(r)
  <2>1. rpc[r] = "mark" /\ Fail("connect") /\ rpc' = [rpc EXCEPT ![r] = "failed"]
        /\ stream' = stream /\ logged' = logged /\ todo' = todo /\ outbox' = outbox
        /\ holding' = holding /\ rivals' = rivals
    BY <1>5 DEF ConnectRaises
  <2> QED BY <2>1, <1>f, <1>t DEF RelayType
<1>6. CASE CommitRaises(r)
  <2>1. rpc[r] \in {"mark", "failed"} /\ Fail("commit") /\ EndPass(r)
        /\ stream' = stream /\ logged' = logged
    BY <1>6 DEF CommitRaises
  <2>2. Row(r) \in DOMAIN outbox
    BY <2>1, RowType
  <2>3. \/ outbox' = outbox
        \/ \E st \in {"PENDING", "PUBLISHED", "FAILED"} : SetRow(Row(r), st)
    BY <1>6, FailedStatusType DEF CommitRaises
  <2>4. outbox' \in Seq(OutboxRow) /\ DOMAIN outbox' = DOMAIN outbox
    BY <2>2, <2>3, SetRowType, <1>t DEF RelayType
  <2> QED BY <2>1, <2>4, EndPassType, <1>f, <1>t DEF RelayType
<1>7. CASE RelayDies(r)
  <2>1. outbox' = outbox /\ stream' = stream /\ logged' = logged /\ Fail("relay") /\ EndPass(r)
    BY <1>7 DEF RelayDies
  <2> QED BY <2>1, EndPassType, <1>f, <1>t DEF RelayType
<1> QED BY <1>1, <1>2, <1>3, <1>4, <1>5, <1>6, <1>7 DEF RelayNext, RelayStep

\* A step of a request leaves the relays alone, one of a relay the requests.
LEMMA Apart ==
  /\ \A c \in Client : ClientNext(c) =>
       /\ rpc' = rpc /\ todo' = todo /\ stream' = stream /\ logged' = logged /\ errors' = errors
       /\ holding' = holding /\ rivals' = rivals
  /\ \A r \in Relay : RelayNext(r) =>
       /\ moves' = moves /\ journal' = journal /\ reversed' = reversed
       /\ pc' = pc /\ arg' = arg /\ tx' = tx /\ torn' = torn /\ doubled' = doubled
<1>1. ASSUME NEW c \in Client, ClientNext(c)
      PROVE  /\ rpc' = rpc /\ todo' = todo /\ stream' = stream /\ logged' = logged /\ errors' = errors
             /\ holding' = holding /\ rivals' = rivals
  BY <1>1 DEF ClientNext, record_unit_movement, PostMovement, CommitMovement, CommitReversal,
              reverse_entry, MarkReversed, Abort, relayVars, passVars
<1>2. ASSUME NEW r \in Relay, RelayNext(r)
      PROVE  /\ moves' = moves /\ journal' = journal /\ reversed' = reversed
             /\ pc' = pc /\ arg' = arg /\ tx' = tx /\ torn' = torn /\ doubled' = doubled
  BY <1>2 DEF RelayNext, RelayStep, execute, publish, mark_published, mark_failed,
              ConnectRaises, CommitRaises, RelayDies, ledgerVars, clientVars
<1> QED BY <1>1, <1>2

\* A step in which nothing happens.
LEMMA Stutter ==
  UNCHANGED vars =>
    /\ moves' = moves /\ journal' = journal /\ reversed' = reversed /\ outbox' = outbox
    /\ pc' = pc /\ arg' = arg /\ tx' = tx /\ torn' = torn
    /\ rpc' = rpc /\ todo' = todo /\ stream' = stream /\ logged' = logged /\ errors' = errors
    /\ holding' = holding /\ rivals' = rivals /\ doubled' = doubled
BY DEF vars, ledgerVars, clientVars, relayVars, passVars

\* Every step keeps the types.
LEMMA TypeNext == TypeOK /\ [Next]_vars => TypeOK'
<1> SUFFICES ASSUME TypeOK, [Next]_vars PROVE TypeOK'
  OBVIOUS
<1>t. ClientType /\ RelayType
  BY TypeParts
<1>1. ASSUME NEW c \in Client, ClientNext(c) PROVE TypeOK'
  <2>1. ClientType' /\ DOMAIN outbox \subseteq DOMAIN outbox'
    BY <1>1, ClientTypeNext
  <2>2. /\ rpc' = rpc /\ todo' = todo /\ stream' = stream /\ logged' = logged /\ errors' = errors
        /\ holding' = holding /\ rivals' = rivals
    BY <1>1, Apart
  <2>3. RelayType'
    BY <2>1, <2>2, <1>t DEF RelayType, ClientType
  <2> QED BY <2>1, <2>3, TypePartsNext
<1>2. ASSUME NEW r \in Relay, RelayNext(r) PROVE TypeOK'
  <2>1. RelayType'
    BY <1>2, RelayTypeNext
  <2>2. /\ moves' = moves /\ journal' = journal /\ reversed' = reversed
        /\ pc' = pc /\ arg' = arg /\ tx' = tx /\ torn' = torn /\ doubled' = doubled
    BY <1>2, Apart
  <2>3. ClientType'
    BY <2>1, <2>2, <1>t DEF RelayType, ClientType, Argument
  <2> QED BY <2>1, <2>3, TypePartsNext
<1>3. CASE UNCHANGED vars
  BY <1>3, Stutter DEF TypeOK
<1> QED BY <1>1, <1>2, <1>3 DEF Next

\* Every table, session and relay keeps its shape, and a relay only holds ids
\* of rows that exist.
THEOREM TypeCorrect == Spec => []TypeOK
BY TypeInit, TypeNext, PTL DEF Spec

-----------------------------------------------------------------------------
(* What the steps of a request do, given what its session has written. *)

\* Only request c moves.
Frame(c) ==
  \A d \in Client \ {c} : pc'[d] = pc[d] /\ arg'[d] = arg[d] /\ tx'[d] = tx[d]

TablesStay == moves' = moves /\ journal' = journal /\ outbox' = outbox /\ doubled' = doubled
StatusStays == reversed' = reversed /\ torn' = torn

\* Request c goes to label l with argument a and has written w.
At(c, l, a, w) == pc'[c] = l /\ arg'[c] = a /\ tx'[c] = w /\ Frame(c)

\* The three ways in which an INSERT of entry e ends (post_entry).
PostNew(c, e) == ~Waits(c, e) /\ ~SourceTaken(e)

\* Writing request c's part of pc, arg and tx leaves the others alone.
LEMMA AtIntro ==
  ASSUME TypeOK, NEW c \in Client, NEW l, NEW a, NEW w,
         pc' = [pc EXCEPT ![c] = l], arg' = [arg EXCEPT ![c] = a], tx' = [tx EXCEPT ![c] = w]
  PROVE  At(c, l, a, w)
BY DEF TypeOK, At, Frame

\* A function with one argument set to the value it has is the same function.
LEMMA AtSameTx ==
  ASSUME TypeOK, NEW c \in Client, NEW l, NEW a,
         pc' = [pc EXCEPT ![c] = l], arg' = [arg EXCEPT ![c] = a], tx' = tx
  PROVE  At(c, l, a, tx[c])
BY DEF TypeOK, At, Frame

\* A session is what it has written.
LEMMA TxEqual ==
  ASSUME NEW t \in Tx, NEW u \in Tx,
         t.moves = u.moves, t.entries = u.entries, t.events = u.events
  PROVE  t = u
BY DEF Tx

\* The movement is written into a session.
LEMMA TxMoves ==
  ASSUME NEW t \in Tx, NEW m \in Movement
  PROVE  [t EXCEPT !.moves = {m}] = [moves |-> {m}, entries |-> t.entries, events |-> t.events]
<1> DEFINE u == [t EXCEPT !.moves = {m}]
           v == [moves |-> {m}, entries |-> t.entries, events |-> t.events]
<1>1. u \in Tx /\ u.moves = {m} /\ u.entries = t.entries /\ u.events = t.events
  BY DEF Tx
<1>2. v \in Tx /\ v.moves = {m} /\ v.entries = t.entries /\ v.events = t.events
  BY DEF Tx
<1> HIDE DEF u, v
<1>3. u = v
  BY <1>1, <1>2, TxEqual
<1> QED BY <1>3 DEF u, v

\* record_unit_movement answers, or opens a session with the movement.
LEMMA RecordEffect ==
  ASSUME TypeOK, Sessions, NEW c \in Client, NEW m \in Movement, record_unit_movement(c, m)
  PROVE  /\ pc[c] = "idle" /\ TablesStay /\ StatusStays
         /\ \/ At(c, "idle", arg[c], EmptyTx)
            \/ At(c, "post", m, MovementTx(m))
<1>1. pc[c] = "idle" /\ TablesStay /\ StatusStays
  BY DEF record_unit_movement, TablesStay, StatusStays, ledgerVars
<1>2. tx[c] = EmptyTx
  BY <1>1 DEF Sessions, Session, SessionAt
<1>3. CASE pc' = [pc EXCEPT ![c] = "idle"] /\ arg' = arg /\ tx' = tx
  BY <1>1, <1>2, <1>3 DEF TypeOK, At, Frame
<1>4. CASE pc' = [pc EXCEPT ![c] = "post"] /\ arg' = [arg EXCEPT ![c] = m]
           /\ tx' = [tx EXCEPT ![c].moves = {m}]
  <2>1. tx'[c] = [tx[c] EXCEPT !.moves = {m}] /\ \A d \in Client \ {c} : tx'[d] = tx[d]
    BY <1>4 DEF TypeOK
  <2>2. tx'[c] = MovementTx(m)
    <3>1. tx[c] \in Tx /\ tx[c].entries = {} /\ tx[c].events = <<>>
      BY <1>2, EmptyTxType DEF EmptyTx
    <3>2. [tx[c] EXCEPT !.moves = {m}]
            = [moves |-> {m}, entries |-> tx[c].entries, events |-> tx[c].events]
      BY <3>1, TxMoves
    <3> QED BY <2>1, <3>1, <3>2 DEF MovementTx
  <2> QED BY <1>1, <1>4, <2>1, <2>2 DEF TypeOK, At, Frame
<1> QED BY <1>1, <1>3, <1>4 DEF record_unit_movement, Goto

\* What Insert makes of a session that has not written an entry yet.
LEMMA InsertInto ==
  ASSUME NEW t \in Tx, NEW e \in Entry, NEW events \in Seq(Key), t.entries = {}, t.events = <<>>
  PROVE  Insert(t, e, events) = [moves |-> t.moves, entries |-> {e}, events |-> events]
<1>1. t.entries \cup {e} = {e} /\ t.events \o events = events
  OBVIOUS
<1>2. Insert(t, e, events) = [t EXCEPT !.entries = {e}, !.events = events]
  BY <1>1 DEF Insert
<1> DEFINE u == [t EXCEPT !.entries = {e}, !.events = events]
           v == [moves |-> t.moves, entries |-> {e}, events |-> events]
<1>3. u \in Tx /\ u.moves = t.moves /\ u.entries = {e} /\ u.events = events
  BY DEF Tx
<1>4. v \in Tx /\ v.moves = t.moves /\ v.entries = {e} /\ v.events = events
  BY DEF Tx
<1> HIDE DEF u, v
<1>5. u = v
  BY <1>3, <1>4, TxEqual
<1> QED BY <1>2, <1>5 DEF u, v

\* The entry of a movement is posted: it is new, its key is known, or the
\* reference is taken and the session is rolled back.
LEMMA PostEffect ==
  ASSUME TypeOK, Sessions, NEW c \in Client, PostMovement(c)
  PROVE  /\ pc[c] = "post" /\ arg[c] \in Movement /\ TablesStay /\ StatusStays
         /\ \/ /\ PostNew(c, MovementEntry(arg[c]))
               /\ At(c, "commit", arg[c], BookedTx(arg[c]))
            \/ /\ Posted(MovementEntry(arg[c]))
               /\ At(c, "close", arg[c], MovementTx(arg[c]))
            \/ At(c, "idle", <<>>, EmptyTx)
<1> DEFINE m == arg[c]
           e == MovementEntry(m)
<1>1. pc[c] = "post" /\ TablesStay /\ StatusStays
      /\ post_entry(c, m, e, <<KeyOf(m)>>, "commit", "close")
  BY DEF PostMovement, TablesStay, StatusStays, ledgerVars
<1>2. tx[c] = MovementTx(m) /\ m \in Movement
  BY <1>1 DEF Sessions, Session, SessionAt, TypeOK, MovementTx
<1>3. Insert(tx[c], e, <<KeyOf(m)>>) = BookedTx(m)
  <2>1. tx[c] \in Tx /\ tx[c].moves = {m} /\ tx[c].entries = {} /\ tx[c].events = <<>>
    BY <1>2 DEF MovementTx, TypeOK, Tx
  <2>2. e \in Entry /\ <<KeyOf(m)>> \in Seq(Key)
    BY <1>2, MovementEntryType
  <2> HIDE DEF m, e
  <2> QED BY <2>1, <2>2, InsertInto DEF BookedTx, e
<1> HIDE DEF m, e
<1>4. CASE Posted(e) /\ pc' = [pc EXCEPT ![c] = "close"] /\ arg' = [arg EXCEPT ![c] = m] /\ tx' = tx
  BY <1>1, <1>2, <1>4, AtSameTx DEF m, e
<1>5. CASE PostNew(c, e) /\ pc' = [pc EXCEPT ![c] = "commit"] /\ arg' = [arg EXCEPT ![c] = m]
           /\ tx' = [tx EXCEPT ![c] = Insert(tx[c], e, <<KeyOf(m)>>)]
  BY <1>1, <1>2, <1>3, <1>5, AtIntro DEF m, e
<1>6. CASE pc' = [pc EXCEPT ![c] = "idle"] /\ arg' = [arg EXCEPT ![c] = <<>>]
           /\ tx' = [tx EXCEPT ![c] = EmptyTx]
  BY <1>1, <1>2, <1>6, AtIntro DEF m, e
<1> QED BY <1>1, <1>4, <1>5, <1>6 DEF post_entry, Goto, Done, PostNew

\* The reversal of an entry is posted, or its key is known.
LEMMA ReverseEffect ==
  ASSUME TypeOK, Sessions, NEW c \in Client, NEW e \in journal, reverse_entry(c, e)
  PROVE  /\ pc[c] = "idle" /\ e.depth < MaxDepth /\ TablesStay /\ StatusStays
         /\ \/ /\ PostNew(c, ReversalEntry(e))
               /\ At(c, "rcommit", e, ReversalTx(e))
            \/ /\ Posted(ReversalEntry(e))
               /\ At(c, "mark", e, EmptyTx)
            \/ At(c, "idle", <<>>, EmptyTx)
<1> DEFINE f == ReversalEntry(e)
<1>1. pc[c] = "idle" /\ e.depth < MaxDepth /\ TablesStay /\ StatusStays
      /\ post_entry(c, e, f, <<>>, "rcommit", "mark")
  BY DEF reverse_entry, TablesStay, StatusStays, ledgerVars
<1>2. tx[c] = EmptyTx
  BY <1>1 DEF Sessions, Session, SessionAt
<1>3. Insert(tx[c], f, <<>>) = ReversalTx(e)
  <2>1. tx[c] \in Tx /\ tx[c].moves = {} /\ tx[c].entries = {} /\ tx[c].events = <<>>
    BY <1>2, EmptyTxType DEF EmptyTx
  <2>2. f \in Entry /\ <<>> \in Seq(Key)
    BY <1>1, ReversalEntryType DEF TypeOK
  <2> HIDE DEF f
  <2> QED BY <2>1, <2>2, InsertInto DEF ReversalTx, f
<1> HIDE DEF f
<1>4. CASE Posted(f) /\ pc' = [pc EXCEPT ![c] = "mark"] /\ arg' = [arg EXCEPT ![c] = e] /\ tx' = tx
  BY <1>1, <1>2, <1>4, AtSameTx DEF f
<1>5. CASE PostNew(c, f) /\ pc' = [pc EXCEPT ![c] = "rcommit"] /\ arg' = [arg EXCEPT ![c] = e]
           /\ tx' = [tx EXCEPT ![c] = Insert(tx[c], f, <<>>)]
  BY <1>1, <1>2, <1>3, <1>5, AtIntro DEF f
<1>6. CASE pc' = [pc EXCEPT ![c] = "idle"] /\ arg' = [arg EXCEPT ![c] = <<>>]
           /\ tx' = [tx EXCEPT ![c] = EmptyTx]
  BY <1>1, <1>2, <1>6, AtIntro DEF f
<1> QED BY <1>1, <1>4, <1>5, <1>6 DEF post_entry, Goto, Done, PostNew

NewRow(k) == [key |-> k, status |-> "PENDING", attempts |-> 0]

\* The commit of a movement: with its entry and its outbox row, or alone when
\* its key was known.
LEMMA CommitEffect ==
  ASSUME TypeOK, Sessions, NEW c \in Client, CommitMovement(c)
  PROVE  /\ arg[c] \in Movement /\ StatusStays /\ moves' = moves \cup {arg[c]}
         /\ doubled' = doubled \cup (journal \cap tx[c].entries)
         /\ At(c, "idle", <<>>, EmptyTx)
         /\ \/ /\ pc[c] = "commit" /\ tx[c] = BookedTx(arg[c])
               /\ journal' = journal \cup {MovementEntry(arg[c])}
               /\ outbox' = Append(outbox, NewRow(KeyOf(arg[c])))
            \/ /\ pc[c] = "close" /\ tx[c].entries = {}
               /\ journal' = journal /\ outbox' = outbox
<1>1. pc[c] \in {"commit", "close"} /\ arg[c] \in Movement /\ StatusStays /\ Commit(c)
  BY DEF CommitMovement, StatusStays, TypeOK
<1>2. At(c, "idle", <<>>, EmptyTx)
  BY <1>1, AtIntro DEF CommitMovement, Commit, Done, Goto
<1> DEFINE new == [i \in DOMAIN tx[c].events |-> NewRow(tx[c].events[i])]
<1>3. outbox' = outbox \o new /\ moves' = moves \cup tx[c].moves
      /\ journal' = journal \cup tx[c].entries
      /\ doubled' = doubled \cup (journal \cap tx[c].entries)
  BY <1>1 DEF Commit, NewRow
<1>4. CASE pc[c] = "commit"
  <2>1. tx[c] = BookedTx(arg[c])
    BY <1>4 DEF Sessions, Session, SessionAt, BookedTx
  <2>2. tx[c].moves = {arg[c]} /\ tx[c].entries = {MovementEntry(arg[c])}
        /\ tx[c].events = <<KeyOf(arg[c])>>
    BY <2>1 DEF BookedTx
  <2> DEFINE k == KeyOf(arg[c])
  <2> HIDE DEF k
  <2>3. new = <<NewRow(k)>>
    BY <2>2 DEF k
  <2> HIDE DEF new
  <2>4. outbox \in Seq(OutboxRow)
    BY DEF TypeOK
  <2>5. outbox' = Append(outbox, NewRow(k))
    BY <1>3, <2>3, <2>4
  <2> QED BY <1>1, <1>2, <1>3, <1>4, <2>1, <2>2, <2>5 DEF k
<1>5. CASE pc[c] = "close"
  <2>1. tx[c].moves = {arg[c]} /\ tx[c].entries = {} /\ tx[c].events = <<>>
    <3>1. tx[c] = MovementTx(arg[c])
      BY <1>5 DEF Sessions, Session, SessionAt, MovementTx
    <3> QED BY <3>1 DEF MovementTx
  <2>2. new = <<>>
    BY <2>1
  <2> HIDE DEF new
  <2>3. outbox \in Seq(OutboxRow)
    BY DEF TypeOK
  <2>4. outbox' = outbox
    BY <1>3, <2>2, <2>3
  <2> QED BY <1>1, <1>2, <1>3, <1>5, <2>1, <2>4
<1> QED BY <1>1, <1>4, <1>5

\* The commit of a reversal.
LEMMA CommitReversalEffect ==
  ASSUME TypeOK, Sessions, NEW c \in Client, CommitReversal(c)
  PROVE  /\ pc[c] = "rcommit" /\ arg[c] \in journal /\ arg[c] \in Entry
         /\ arg[c].depth < MaxDepth /\ tx[c] = ReversalTx(arg[c])
         /\ StatusStays /\ moves' = moves /\ outbox' = outbox
         /\ journal' = journal \cup {ReversalEntry(arg[c])}
         /\ doubled' = doubled \cup (journal \cap tx[c].entries)
         /\ At(c, "mark", arg[c], EmptyTx)
<1>1. pc[c] = "rcommit" /\ StatusStays /\ Commit(c) /\ arg' = arg /\ pc' = [pc EXCEPT ![c] = "mark"]
  BY DEF CommitReversal, StatusStays, Goto
<1>2. arg[c] \in journal /\ tx[c] = ReversalTx(arg[c])
      /\ arg[c] \in Entry /\ arg[c].depth < MaxDepth
  BY <1>1 DEF Sessions, Session, SessionAt, ReversalTx, TypeOK
<1>3. tx[c].moves = {} /\ tx[c].entries = {ReversalEntry(arg[c])} /\ tx[c].events = <<>>
  BY <1>2 DEF ReversalTx
<1> DEFINE new == [i \in DOMAIN tx[c].events |-> NewRow(tx[c].events[i])]
<1>4. outbox' = outbox \o new /\ moves' = moves \cup tx[c].moves
      /\ journal' = journal \cup tx[c].entries /\ tx' = [tx EXCEPT ![c] = EmptyTx]
      /\ doubled' = doubled \cup (journal \cap tx[c].entries)
  BY <1>1 DEF Commit, NewRow
<1>5. new = <<>>
  BY <1>3
<1> HIDE DEF new
<1>6. outbox \in Seq(OutboxRow)
  BY DEF TypeOK
<1>7. outbox' = outbox
  BY <1>4, <1>5, <1>6
<1>8. At(c, "mark", arg[c], EmptyTx)
  BY <1>1, <1>4 DEF At, Frame, TypeOK
<1> QED BY <1>1, <1>2, <1>3, <1>4, <1>7, <1>8

\* The status of the reversed entry is updated.
LEMMA MarkEffect ==
  ASSUME TypeOK, Sessions, NEW c \in Client, MarkReversed(c)
  PROVE  /\ pc[c] = "mark" /\ TablesStay
         /\ reversed' = reversed \cup {EntryId(arg[c])} /\ torn' = torn \ {EntryId(arg[c])}
         /\ At(c, "idle", <<>>, EmptyTx)
<1>1. pc[c] = "mark" /\ TablesStay /\ tx' = tx
      /\ reversed' = reversed \cup {EntryId(arg[c])} /\ torn' = torn \ {EntryId(arg[c])}
      /\ pc' = [pc EXCEPT ![c] = "idle"] /\ arg' = [arg EXCEPT ![c] = <<>>]
  BY DEF MarkReversed, TablesStay, Done, Goto
<1>2. tx[c] = EmptyTx
  BY <1>1 DEF Sessions, Session, SessionAt
<1> QED BY <1>1, <1>2, AtSameTx

\* A request dies and its session is rolled back.
LEMMA AbortEffect ==
  ASSUME TypeOK, NEW c \in Client, Abort(c)
  PROVE  /\ pc[c] # "idle" /\ TablesStay /\ reversed' = reversed
         /\ torn' = IF pc[c] = "mark" THEN torn \cup {EntryId(arg[c])} ELSE torn
         /\ At(c, "idle", <<>>, EmptyTx)
BY AtIntro DEF Abort, TablesStay, ledgerVars, Done, Goto

-----------------------------------------------------------------------------
(* What a session has written. *)

\* A request that did not move still knows what it knew: the journal grows.
LEMMA SessionOther ==
  ASSUME NEW d \in Client, Session(d), journal \subseteq journal',
         pc'[d] = pc[d], arg'[d] = arg[d], tx'[d] = tx[d]
  PROVE  Session(d)'
BY DEF Session, SessionAt, Posted

\* The request that moved has written what its new step says.
LEMMA SessionsAt ==
  ASSUME Sessions, NEW c \in Client, NEW l, NEW a, NEW w, At(c, l, a, w),
         journal \subseteq journal', SessionAt(l, a, w)'
  PROVE  Sessions'
<1>1. ASSUME NEW d \in Client, d # c PROVE Session(d)'
  BY <1>1, SessionOther DEF Sessions, At, Frame
<1>2. Session(c)'
  BY DEF Session, At
<1> QED BY <1>1, <1>2 DEF Sessions

\* Every step keeps what the sessions have written in line with the requests.
LEMMA SessionsNext ==
  ASSUME TypeOK, Sessions, NEW c \in Client, ClientNext(c)
  PROVE  Sessions'
<1> USE DEF SessionAt
<1>1. ASSUME NEW m \in Movement, record_unit_movement(c, m) PROVE Sessions'
  <2>1. TablesStay /\ (At(c, "idle", arg[c], EmptyTx) \/ At(c, "post", m, MovementTx(m)))
    BY <1>1, RecordEffect
  <2>2. SessionAt("idle", arg[c], EmptyTx)' /\ SessionAt("post", m, MovementTx(m))'
    OBVIOUS
  <2> QED BY <2>1, <2>2, SessionsAt DEF TablesStay
<1>2. CASE PostMovement(c)
  <2>0. PICK a : a = arg[c]
    OBVIOUS
  <2>1. /\ TablesStay
        /\ \/ At(c, "commit", a, BookedTx(a))
           \/ Posted(MovementEntry(a)) /\ At(c, "close", a, MovementTx(a))
           \/ At(c, "idle", <<>>, EmptyTx)
    BY <1>2, <2>0, PostEffect
  <2>2. SessionAt("commit", a, BookedTx(a))' /\ SessionAt("idle", <<>>, EmptyTx)'
    OBVIOUS
  <2>3. Posted(MovementEntry(a)) => SessionAt("close", a, MovementTx(a))'
    BY <2>1 DEF TablesStay, Posted
  <2> QED BY <2>1, <2>2, <2>3, SessionsAt DEF TablesStay
<1>3. CASE CommitMovement(c)
  <2>1. At(c, "idle", <<>>, EmptyTx) /\ journal \subseteq journal'
    BY <1>3, CommitEffect
  <2>2. SessionAt("idle", <<>>, EmptyTx)'
    OBVIOUS
  <2> QED BY <2>1, <2>2, SessionsAt
<1>4. CASE CommitReversal(c)
  <2>0. PICK a : a = arg[c]
    OBVIOUS
  <2>1. /\ At(c, "mark", a, EmptyTx) /\ a \in journal
        /\ journal' = journal \cup {ReversalEntry(a)}
    BY <1>4, <2>0, CommitReversalEffect
  <2>2. SessionAt("mark", a, EmptyTx)'
    BY <2>1 DEF Posted, SameKey
  <2> QED BY <2>1, <2>2, SessionsAt
<1>5. ASSUME NEW e \in journal, reverse_entry(c, e) PROVE Sessions'
  <2>1. /\ TablesStay
        /\ \/ At(c, "rcommit", e, ReversalTx(e))
           \/ Posted(ReversalEntry(e)) /\ At(c, "mark", e, EmptyTx)
           \/ At(c, "idle", <<>>, EmptyTx)
    BY <1>5, ReverseEffect
  <2>2. SessionAt("idle", <<>>, EmptyTx)' /\ SessionAt("rcommit", e, ReversalTx(e))'
    BY <2>1 DEF TablesStay
  <2>3. Posted(ReversalEntry(e)) => SessionAt("mark", e, EmptyTx)'
    BY <2>1 DEF TablesStay, Posted
  <2> QED BY <2>1, <2>2, <2>3, SessionsAt DEF TablesStay
<1>6. CASE MarkReversed(c)
  <2>1. At(c, "idle", <<>>, EmptyTx) /\ TablesStay
    BY <1>6, MarkEffect
  <2>2. SessionAt("idle", <<>>, EmptyTx)'
    OBVIOUS
  <2> QED BY <2>1, <2>2, SessionsAt DEF TablesStay
<1>7. CASE Abort(c)
  <2>1. At(c, "idle", <<>>, EmptyTx) /\ TablesStay
    BY <1>7, AbortEffect
  <2>2. SessionAt("idle", <<>>, EmptyTx)'
    OBVIOUS
  <2> QED BY <2>1, <2>2, SessionsAt DEF TablesStay
<1> QED BY <1>1, <1>2, <1>3, <1>4, <1>5, <1>6, <1>7, RequestAssumption DEF ClientNext

-----------------------------------------------------------------------------
(* No key and no reference is booked twice. *)

\* The unique index does not depend on which of two entries comes first.
LEMMA SameSourceSym ==
  ASSUME NEW e, NEW f, SameSource(e, f)
  PROVE  SameSource(f, e)
BY DEF SameSource, SameKey

\* Nothing is inserted: the index stays unique.
LEMMA UniqueLess ==
  ASSUME TypeOK, Unique, NEW c \in Client, Frame(c), journal' = journal, doubled' = doubled,
         tx'[c].entries = {} \/ tx'[c].entries = tx[c].entries
  PROVE  Unique'
<1>1. ASSUME NEW d \in Client PROVE tx'[d].entries \subseteq tx[d].entries
  BY DEF Frame
<1>2. BookedOnce'
  BY DEF Unique, BookedOnce
<1>3. ASSUME NEW d \in Client, NEW e \in tx'[d].entries, NEW f \in journal'
      PROVE  ~SameSource(e, f)
  BY <1>1 DEF Unique
<1>4. ASSUME NEW d \in Client, NEW b \in Client, d # b,
             NEW e \in tx'[d].entries, NEW f \in tx'[b].entries
      PROVE  ~SameSource(e, f)
  BY <1>1, <1>4 DEF Unique
<1> QED BY <1>2, <1>3, <1>4 DEF Unique

\* An entry is inserted that did not wait and whose source is not taken.
LEMMA UniquePost ==
  ASSUME TypeOK, Unique, NEW c \in Client, NEW e, Frame(c), journal' = journal, doubled' = doubled,
         PostNew(c, e), tx'[c].entries = {e}
  PROVE  Unique'
<1>1. BookedOnce'
  BY DEF Unique, BookedOnce
<1>2. \A f \in journal : ~SameSource(e, f)
  BY DEF PostNew, SourceTaken
<1>3. ASSUME NEW d \in Client, d # c, NEW f \in tx[d].entries PROVE ~SameSource(e, f)
  BY <1>3 DEF PostNew, Waits, Uncommitted
<1>4. \A d \in Client \ {c} : tx'[d] = tx[d]
  BY DEF Frame
<1>5. ASSUME NEW d \in Client, NEW g \in tx'[d].entries, NEW f \in journal'
      PROVE  ~SameSource(g, f)
  <2>1. CASE d = c
    BY <1>2, <2>1
  <2>2. CASE d # c
    BY <1>4, <2>2 DEF Unique
  <2> QED BY <2>1, <2>2
<1>6. ASSUME NEW d \in Client, NEW b \in Client, d # b,
             NEW g \in tx'[d].entries, NEW f \in tx'[b].entries
      PROVE  ~SameSource(g, f)
  <2>1. CASE d = c
    BY <1>3, <1>4, <1>6, <2>1
  <2>2. CASE b = c
    BY <1>3, <1>4, <1>6, <2>2, SameSourceSym
  <2>3. CASE d # c /\ b # c
    BY <1>4, <1>6, <2>3 DEF Unique
  <2> QED BY <2>1, <2>2, <2>3
<1> QED BY <1>1, <1>5, <1>6 DEF Unique

\* The entry of a session is committed.
LEMMA UniqueCommit ==
  ASSUME TypeOK, Unique, NEW c \in Client, NEW e, Frame(c), tx[c].entries = {e},
         tx'[c].entries = {}, journal' = journal \cup {e},
         doubled' = doubled \cup (journal \cap tx[c].entries)
  PROVE  Unique'
<1>1. \A f \in journal : ~SameSource(e, f)
  BY DEF Unique
<1>2. \A d \in Client \ {c} : tx'[d] = tx[d]
  BY DEF Frame
<1>3. BookedOnce'
  <2>1. ASSUME NEW f \in journal', NEW g \in journal', SameSource(f, g) PROVE f = g
    <3>1. CASE f = e
      BY <1>1, <2>1, <3>1
    <3>2. CASE g = e
      BY <1>1, <2>1, <3>2, SameSourceSym
    <3>3. CASE f # e /\ g # e
      BY <2>1, <3>3 DEF Unique, BookedOnce
    <3> QED BY <3>1, <3>2, <3>3
  <2>2. e \notin journal
    BY <1>1 DEF SameSource, SameKey
  <2>3. doubled' = {}
    BY <2>2 DEF Unique, BookedOnce
  <2> QED BY <2>1, <2>3 DEF BookedOnce
<1>4. ASSUME NEW d \in Client, NEW g \in tx'[d].entries, NEW f \in journal'
      PROVE  ~SameSource(g, f)
  <2>1. d # c /\ g \in tx[d].entries
    BY <1>2
  <2>2. e \in tx[c].entries
    OBVIOUS
  <2>3. ~SameSource(g, e)
    BY <2>1, <2>2 DEF Unique
  <2> QED BY <2>1, <2>3 DEF Unique
<1>5. ASSUME NEW d \in Client, NEW b \in Client, d # b,
             NEW g \in tx'[d].entries, NEW f \in tx'[b].entries
      PROVE  ~SameSource(g, f)
  BY <1>2, <1>5 DEF Unique
<1> QED BY <1>3, <1>4, <1>5 DEF Unique

\* Every step of a request keeps the unique indexes unique.
LEMMA UniqueNext ==
  ASSUME TypeOK, Sessions, Unique, NEW c \in Client, ClientNext(c)
  PROVE  Unique'
<1>0. /\ EmptyTx.entries = {}
      /\ \A x : MovementTx(x).entries = {}
      /\ \A x : BookedTx(x).entries = {MovementEntry(x)}
      /\ \A x : ReversalTx(x).entries = {ReversalEntry(x)}
  BY DEF EmptyTx, MovementTx, BookedTx, ReversalTx
<1>1. ASSUME NEW m \in Movement, record_unit_movement(c, m) PROVE Unique'
  <2>1. journal' = journal /\ doubled' = doubled /\ Frame(c) /\ tx'[c].entries = {}
    BY <1>0, <1>1, RecordEffect DEF TablesStay, At
  <2> QED BY <2>1, UniqueLess
<1>2. CASE PostMovement(c)
  <2>1. /\ journal' = journal /\ doubled' = doubled /\ Frame(c)
        /\ \/ PostNew(c, MovementEntry(arg[c])) /\ tx'[c].entries = {MovementEntry(arg[c])}
           \/ tx'[c].entries = {}
    BY <1>0, <1>2, PostEffect DEF TablesStay, At
  <2> QED BY <2>1, UniqueLess, UniquePost
<1>3. CASE CommitMovement(c)
  <2>1. /\ Frame(c) /\ tx'[c].entries = {}
        /\ doubled' = doubled \cup (journal \cap tx[c].entries)
        /\ \/ /\ tx[c].entries = {MovementEntry(arg[c])}
              /\ journal' = journal \cup {MovementEntry(arg[c])}
           \/ tx[c].entries = {} /\ journal' = journal
    BY <1>0, <1>3, CommitEffect DEF At
  <2> QED BY <2>1, UniqueLess, UniqueCommit
<1>4. CASE CommitReversal(c)
  <2>1. /\ Frame(c) /\ tx'[c].entries = {}
        /\ tx[c].entries = {ReversalEntry(arg[c])}
        /\ doubled' = doubled \cup (journal \cap tx[c].entries)
        /\ journal' = journal \cup {ReversalEntry(arg[c])}
    BY <1>0, <1>4, CommitReversalEffect DEF At
  <2> QED BY <2>1, UniqueCommit
<1>5. ASSUME NEW e \in journal, reverse_entry(c, e) PROVE Unique'
  <2>1. /\ journal' = journal /\ doubled' = doubled /\ Frame(c)
        /\ \/ PostNew(c, ReversalEntry(e)) /\ tx'[c].entries = {ReversalEntry(e)}
           \/ tx'[c].entries = {}
    BY <1>0, <1>5, ReverseEffect DEF TablesStay, At
  <2> QED BY <2>1, UniqueLess, UniquePost
<1>6. CASE MarkReversed(c) \/ Abort(c)
  <2>1. journal' = journal /\ doubled' = doubled /\ Frame(c) /\ tx'[c].entries = {}
    BY <1>0, <1>6, MarkEffect, AbortEffect DEF TablesStay, At
  <2> QED BY <2>1, UniqueLess
<1> QED BY <1>1, <1>2, <1>3, <1>4, <1>5, <1>6, RequestAssumption DEF ClientNext

-----------------------------------------------------------------------------
(* What a step does to the tables. *)

\* A movement is booked with its entry and its outbox row.
Books(m) ==
  /\ moves' = moves \cup {m} /\ journal' = journal \cup {MovementEntry(m)}
  /\ outbox' = Append(outbox, NewRow(KeyOf(m)))
  /\ \A f \in journal : ~SameSource(MovementEntry(m), f)

\* A movement is stored whose key was booked before.
StoresKnown(m) ==
  /\ moves' = moves \cup {m} /\ journal' = journal /\ outbox' = outbox
  /\ Posted(MovementEntry(m))

\* The reversal of entry e is booked.
Reverses(e) ==
  /\ moves' = moves /\ outbox' = outbox /\ journal' = journal \cup {ReversalEntry(e)}
  /\ \A f \in journal : ~SameSource(ReversalEntry(e), f)
  /\ e \in Entry /\ e.depth < MaxDepth

\* These are the only ways in which a request changes the tables.
LEMMA TableStep ==
  ASSUME TypeOK, Sessions, Unique, NEW c \in Client, ClientNext(c)
  PROVE  \/ TablesStay
         \/ \E m \in Movement : Books(m)
         \/ \E m \in Movement : StoresKnown(m)
         \/ \E e \in journal : Reverses(e) /\ CommitReversal(c) /\ e = arg[c]
<1>1. CASE CommitMovement(c)
  <2>1. arg[c] \in Movement /\ moves' = moves \cup {arg[c]}
    BY <1>1, CommitEffect
  <2>2. CASE pc[c] = "commit"
    <3>1. /\ tx[c] = BookedTx(arg[c])
          /\ journal' = journal \cup {MovementEntry(arg[c])}
          /\ outbox' = Append(outbox, NewRow(KeyOf(arg[c])))
      BY <1>1, <2>2, CommitEffect
    <3>2. MovementEntry(arg[c]) \in tx[c].entries
      BY <3>1 DEF BookedTx
    <3> QED BY <2>1, <3>1, <3>2 DEF Books, Unique
  <2>3. CASE pc[c] = "close"
    <3>1. journal' = journal /\ outbox' = outbox
      BY <1>1, <2>3, CommitEffect
    <3>2. Posted(MovementEntry(arg[c]))
      BY <2>3 DEF Sessions, Session, SessionAt
    <3> QED BY <2>1, <3>1, <3>2 DEF StoresKnown
  <2> QED BY <1>1, <2>2, <2>3 DEF CommitMovement
<1>2. CASE CommitReversal(c)
  <2>1. /\ arg[c] \in journal /\ arg[c] \in Entry /\ arg[c].depth < MaxDepth
        /\ tx[c] = ReversalTx(arg[c]) /\ moves' = moves /\ outbox' = outbox
        /\ journal' = journal \cup {ReversalEntry(arg[c])}
    BY <1>2, CommitReversalEffect
  <2>2. ReversalEntry(arg[c]) \in tx[c].entries
    BY <2>1 DEF ReversalTx
  <2> QED BY <1>2, <2>1, <2>2 DEF Reverses, Unique
<1>3. CASE ~CommitMovement(c) /\ ~CommitReversal(c)
  BY <1>3, RecordEffect, PostEffect, ReverseEffect, MarkEffect, AbortEffect, RequestAssumption
     DEF ClientNext
<1> QED BY <1>1, <1>2, <1>3

\* A relay does not change the keys of the outbox.
LEMMA RelayKeys ==
  ASSUME TypeOK, NEW r \in Relay, RelayNext(r)
  PROVE  /\ DOMAIN outbox' = DOMAIN outbox
         /\ \A i \in DOMAIN outbox : outbox'[i].key = outbox[i].key
<1>1. CASE outbox' = outbox
  BY <1>1
<1>2. ASSUME NEW status \in {"PENDING", "PUBLISHED", "FAILED"}, SetRow(Row(r), status),
             rpc[r] # "idle"
      PROVE  /\ DOMAIN outbox' = DOMAIN outbox
             /\ \A i \in DOMAIN outbox : outbox'[i].key = outbox[i].key
  <2>1. Row(r) \in DOMAIN outbox
    BY <1>2, RowType
  <2>2. /\ DOMAIN outbox' = DOMAIN outbox
        /\ \A j \in DOMAIN outbox : j # Row(r) => outbox'[j] = outbox[j]
        /\ outbox'[Row(r)].key = outbox[Row(r)].key
    BY <1>2, <2>1, SetRowType
  <2> QED BY <2>1, <2>2
<1> QED BY <1>1, <1>2, FailedStatusType
        DEF RelayNext, RelayStep, execute, publish, mark_published, mark_failed,
            ConnectRaises, CommitRaises, RelayDies

\* Movements, entries and outbox rows stay together.
LEMMA TogetherNext ==
  ASSUME TypeOK, Together, journal \subseteq Entry,
         \/ TablesStay
         \/ \E m \in Movement : Books(m)
         \/ \E m \in Movement : StoresKnown(m)
         \/ \E e \in journal : Reverses(e)
  PROVE  Together'
<1>1. CASE TablesStay
  BY <1>1 DEF TablesStay, Together
<1>2. ASSUME NEW m \in Movement, Books(m) PROVE Together'
  <2> DEFINE e == MovementEntry(m)
             n == Len(outbox) + 1
  <2>1. e.depth = 0 /\ e.key = KeyOf(m)
    BY DEF MovementEntry
  <2>2. /\ outbox \in Seq(OutboxRow) /\ DOMAIN outbox = 1..Len(outbox) /\ Len(outbox) \in Nat
    BY DEF TypeOK
  <2>3. /\ DOMAIN outbox' = DOMAIN outbox \cup {n} /\ n \notin DOMAIN outbox
        /\ outbox'[n] = NewRow(KeyOf(m)) /\ \A i \in DOMAIN outbox : outbox'[i] = outbox[i]
    BY <1>2, <2>2 DEF Books
  <2>4. outbox'[n].key = KeyOf(m)
    BY <2>3 DEF NewRow
  <2>5. moves' = moves \cup {m} /\ journal' = journal \cup {e}
    BY <1>2 DEF Books
  <2>6. \A i \in DOMAIN outbox : outbox[i].key # KeyOf(m)
    <3>1. ASSUME NEW f \in journal, f.depth = 0, f.key = KeyOf(m) PROVE FALSE
      <4>1. SameSource(e, f)
        BY <2>1, <3>1 DEF SameSource, SameKey, EntryId
      <4> QED BY <1>2, <4>1 DEF Books
    <3> QED BY <3>1 DEF Together
  <2> HIDE DEF e, n
  <2>7. \A f \in journal' : f.depth = 0 => \E x \in moves' : MovementEntry(x) = f
    BY <2>5 DEF Together, e
  <2>8. \A f \in journal' : f.depth = 0 => \E i \in DOMAIN outbox' : outbox'[i].key = f.key
    BY <2>1, <2>3, <2>4, <2>5 DEF Together
  <2>9. \A x \in moves' : \E f \in journal' : f.depth = 0 /\ f.key = KeyOf(x)
    BY <2>1, <2>5 DEF Together
  <2>10. \A i \in DOMAIN outbox' : \E f \in journal' : f.depth = 0 /\ f.key = outbox'[i].key
    BY <2>1, <2>3, <2>4, <2>5 DEF Together
  <2>11. ASSUME NEW i \in DOMAIN outbox', NEW j \in DOMAIN outbox', outbox'[i].key = outbox'[j].key
         PROVE  i = j
    BY <2>3, <2>4, <2>6, <2>11 DEF Together
  <2> QED BY <2>7, <2>8, <2>9, <2>10, <2>11 DEF Together
<1>3. ASSUME NEW m \in Movement, StoresKnown(m) PROVE Together'
  <2>1. PICK f \in journal : SameKey(MovementEntry(m), f)
    BY <1>3 DEF StoresKnown, Posted
  <2>2. f.depth = 0 /\ f.key = KeyOf(m)
    BY <2>1 DEF SameKey, EntryId, MovementEntry
  <2>3. moves' = moves \cup {m} /\ journal' = journal /\ outbox' = outbox
    BY <1>3 DEF StoresKnown
  <2> QED BY <2>2, <2>3 DEF Together
<1>4. ASSUME NEW e \in journal, Reverses(e) PROVE Together'
  <2>1. ReversalEntry(e).depth # 0
    BY ReversalFields DEF Entry
  <2>2. moves' = moves /\ outbox' = outbox /\ journal' = journal \cup {ReversalEntry(e)}
    BY <1>4 DEF Reverses
  <2> QED BY <2>1, <2>2 DEF Together
<1> QED BY <1>1, <1>2, <1>3, <1>4

\* Every reversal has the entry it reverses.
LEMMA ChainedNext ==
  ASSUME Chained,
         \/ TablesStay
         \/ \E m \in Movement : Books(m)
         \/ \E m \in Movement : StoresKnown(m)
         \/ \E e \in journal : Reverses(e)
  PROVE  Chained'
<1>1. \A m : MovementEntry(m).depth = 0
  BY DEF MovementEntry
<1> QED BY <1>1 DEF Chained, TablesStay, Books, StoresKnown, Reverses

-----------------------------------------------------------------------------
(* The status of reversed entries. *)

HasReversal(e) == \E f \in journal : f.key = e.key /\ f.depth = e.depth + 1

\* The entry with this id is REVERSED, or a request is about to mark it, or
\* the request that should have died.
Accounted(id) ==
  \/ id \in reversed \/ id \in torn
  \/ \E c \in Client : pc[c] = "mark" /\ EntryId(arg[c]) = id

\* An entry's reversal is posted when its key has an entry of the next depth.
LEMMA PostedReversal ==
  ASSUME NEW e \in Entry
  PROVE  Posted(ReversalEntry(e)) <=> HasReversal(e)
<1>1. ReversalEntry(e).key = e.key /\ ReversalEntry(e).depth = e.depth + 1
  BY ReversalFields
<1>2. \A f : SameKey(ReversalEntry(e), f) <=> f.key = e.key /\ f.depth = e.depth + 1
  BY <1>1 DEF SameKey, EntryId
<1> QED BY <1>2 DEF Posted, HasReversal

StatusParts ==
  /\ \A id \in reversed : \E f \in journal : EntryId(f) = <<id[1], id[2] + 1>>
  /\ \A e \in journal : HasReversal(e) => Accounted(EntryId(e))

\* Status, in these words.
LEMMA StatusForm == journal \subseteq Entry => (Status <=> StatusParts)
<1> SUFFICES ASSUME journal \subseteq Entry PROVE Status <=> StatusParts
  OBVIOUS
<1>1. ASSUME NEW e \in journal PROVE Posted(ReversalEntry(e)) <=> HasReversal(e)
  BY PostedReversal
<1>2. \A c, e : SameKey(arg[c], e) <=> EntryId(arg[c]) = EntryId(e)
  BY DEF SameKey
<1>3. ASSUME Status, NEW e \in journal, HasReversal(e) PROVE Accounted(EntryId(e))
  BY <1>1, <1>2, <1>3 DEF Status, StatusAgrees, Accounted
<1>4. ASSUME \A id \in reversed : \E f \in journal : EntryId(f) = <<id[1], id[2] + 1>>,
             NEW e \in journal, EntryId(e) \in reversed
      PROVE  HasReversal(e)
  <2>1. PICK f \in journal : EntryId(f) = <<EntryId(e)[1], EntryId(e)[2] + 1>>
    BY <1>4
  <2>2. f.key = e.key /\ f.depth = e.depth + 1
    BY <2>1 DEF EntryId
  <2> QED BY <2>2 DEF HasReversal
<1>5. ASSUME /\ \A id \in reversed : \E f \in journal : EntryId(f) = <<id[1], id[2] + 1>>
             /\ \A e \in journal : HasReversal(e) => Accounted(EntryId(e))
      PROVE  StatusAgrees
  BY <1>1, <1>2, <1>4, <1>5 DEF StatusAgrees, Accounted
<1> QED BY <1>3, <1>5 DEF Status, StatusParts

LEMMA StatusFormNext == (journal \subseteq Entry)' => (Status' <=> StatusParts')
BY StatusForm, PTL

\* No step of a request forgets an entry whose reversal is to be marked.
LEMMA AccountedNext ==
  ASSUME TypeOK, Sessions, NEW c \in Client, ClientNext(c), NEW id, Accounted(id)
  PROVE  Accounted(id)'
<1>1. CASE StatusStays /\ pc[c] # "mark" /\ Frame(c)
  BY <1>1 DEF StatusStays, Frame, Accounted
<1>2. CASE MarkReversed(c)
  <2>1. /\ reversed' = reversed \cup {EntryId(arg[c])} /\ torn' = torn \ {EntryId(arg[c])}
        /\ Frame(c)
    BY <1>2, MarkEffect DEF At
  <2> QED BY <2>1 DEF Frame, Accounted
<1>3. CASE Abort(c)
  <2>1. /\ reversed' = reversed /\ Frame(c)
        /\ torn' = IF pc[c] = "mark" THEN torn \cup {EntryId(arg[c])} ELSE torn
    BY <1>3, AbortEffect DEF At
  <2> QED BY <2>1 DEF Frame, Accounted
<1>4. CASE ~MarkReversed(c) /\ ~Abort(c)
  <2>1. StatusStays /\ pc[c] # "mark" /\ Frame(c)
    BY <1>4, RecordEffect, PostEffect, CommitEffect, CommitReversalEffect, ReverseEffect,
       RequestAssumption
       DEF ClientNext, At
  <2> QED BY <1>1, <2>1
<1> QED BY <1>2, <1>3, <1>4

\* Every step of a request keeps the status of the entries right.
LEMMA StatusNext ==
  ASSUME TypeOK, TypeOK', Sessions, Unique, Chained, Status, NEW c \in Client, ClientNext(c)
  PROVE  Status'
<1>t. journal \subseteq Entry /\ journal' \subseteq Entry
  BY DEF TypeOK
<1>s. /\ \A id \in reversed : \E f \in journal : EntryId(f) = <<id[1], id[2] + 1>>
      /\ \A e \in journal : HasReversal(e) => Accounted(EntryId(e))
  BY <1>t, StatusForm DEF StatusParts
<1>j. journal \subseteq journal'
  BY TableStep DEF TablesStay, Books, StoresKnown, Reverses
<1>1. ASSUME NEW id \in reversed' PROVE \E f \in journal' : EntryId(f) = <<id[1], id[2] + 1>>
  <2>1. CASE id \in reversed
    BY <1>s, <1>j, <2>1
  <2>2. CASE id \notin reversed
    <3>1. MarkReversed(c)
      BY <2>2, <1>1, RecordEffect, PostEffect, CommitEffect, CommitReversalEffect,
         ReverseEffect, AbortEffect, RequestAssumption DEF ClientNext, StatusStays
    <3>2. id = EntryId(arg[c]) /\ pc[c] = "mark"
      BY <1>1, <2>2, <3>1, MarkEffect
    <3>3. arg[c] \in journal /\ Posted(ReversalEntry(arg[c]))
      BY <3>2 DEF Sessions, Session, SessionAt
    <3>4. PICK f \in journal : f.key = arg[c].key /\ f.depth = arg[c].depth + 1
      BY <1>t, <3>3, PostedReversal DEF HasReversal
    <3>5. EntryId(f) = <<id[1], id[2] + 1>>
      BY <3>2, <3>4 DEF EntryId
    <3> QED BY <1>j, <3>5
  <2> QED BY <2>1, <2>2
<1>2. ASSUME NEW e \in journal', NEW f \in journal', f.key = e.key, f.depth = e.depth + 1
      PROVE  Accounted(EntryId(e))'
  <2>0. e.depth \in Nat /\ f.depth \in Nat /\ f.depth # 0
    BY <1>t, <1>2, BoundAssumption DEF Entry
  <2>1. CASE e \in journal /\ f \in journal
    <3>1. Accounted(EntryId(e))
      BY <1>s, <1>2, <2>1 DEF HasReversal
    <3> QED BY <3>1, AccountedNext
  <2>2. CASE e \notin journal
    <3>1. e # f
      BY <1>2, <2>0
    <3>2. f \in journal /\ \A g \in journal : ~SameSource(e, g)
      BY <2>2, <3>1, TableStep DEF TablesStay, Books, StoresKnown, Reverses
    <3>3. PICK g \in journal : f = ReversalEntry(g)
      BY <2>0, <3>2 DEF Chained
    <3>4. f.key = g.key /\ f.depth = g.depth + 1 /\ g.depth \in Nat
      BY <1>t, <3>3, ReversalFields, BoundAssumption DEF Entry
    <3>5. g.key = e.key /\ g.depth = e.depth
      BY <1>2, <2>0, <3>4
    <3> QED BY <3>2, <3>5 DEF SameSource, SameKey, EntryId
  <2>3. CASE f \notin journal
    <3>1. PICK a \in journal : Reverses(a) /\ CommitReversal(c) /\ a = arg[c] /\ f = ReversalEntry(a)
      <4>1. \A m : MovementEntry(m).depth = 0
        BY DEF MovementEntry
      <4> QED BY <2>0, <2>3, <4>1, TableStep DEF TablesStay, Books, StoresKnown, Reverses
    <3>2. f.key = a.key /\ f.depth = a.depth + 1 /\ a.depth \in Nat
      BY <1>t, <3>1, ReversalFields, BoundAssumption DEF Entry
    <3>3. EntryId(e) = EntryId(a)
      BY <1>2, <2>0, <3>2 DEF EntryId
    <3>4. pc'[c] = "mark" /\ arg'[c] = a
      BY <3>1, CommitReversalEffect DEF At
    <3> QED BY <3>3, <3>4 DEF Accounted
  <2> QED BY <2>1, <2>2, <2>3
<1>3. \A e \in journal' : HasReversal(e)' => Accounted(EntryId(e))'
  BY <1>2 DEF HasReversal
<1>4. StatusParts'
  BY <1>1, <1>3 DEF StatusParts
<1> QED BY <1>t, <1>4, StatusFormNext

-----------------------------------------------------------------------------
(* The inductive invariant and what follows from it. *)

\* It holds when the tables are empty.
LEMMA InvInit == Init => IInv
<1> SUFFICES ASSUME Init PROVE IInv
  OBVIOUS
<1>1. TypeOK
  BY TypeInit
<1>2. Sessions
  BY DEF Init, Sessions, Session, SessionAt
<1>3. \A c \in Client : tx[c].entries = {}
  BY DEF Init, EmptyTx
<1>4. Unique
  BY <1>3 DEF Init, Unique, BookedOnce
<1>5. DOMAIN outbox = {}
  BY DEF Init
<1>6. Together /\ Chained
  BY <1>5 DEF Init, Together, Chained
<1>7. Status
  BY DEF Init, Status, StatusAgrees
<1> QED BY <1>1, <1>2, <1>4, <1>6, <1>7 DEF IInv

\* Every step keeps it.
LEMMA InvNext == IInv /\ [Next]_vars => IInv'
<1> SUFFICES ASSUME IInv, [Next]_vars PROVE IInv'
  OBVIOUS
<1>i. TypeOK /\ Sessions /\ Unique /\ Together /\ Chained /\ Status
  BY DEF IInv
<1>t. TypeOK'
  BY <1>i, TypeNext
<1>1. ASSUME NEW c \in Client, ClientNext(c) PROVE IInv'
  <2>1. Sessions' /\ Unique'
    BY <1>i, <1>1, SessionsNext, UniqueNext
  <2>2. Together' /\ Chained'
    BY <1>i, <1>1, TableStep, TogetherNext, ChainedNext DEF TypeOK
  <2>3. Status'
    BY <1>i, <1>t, <1>1, StatusNext
  <2> QED BY <1>t, <2>1, <2>2, <2>3 DEF IInv
<1>2. ASSUME NEW r \in Relay, RelayNext(r) PROVE IInv'
  <2>1. /\ moves' = moves /\ journal' = journal /\ reversed' = reversed
        /\ pc' = pc /\ arg' = arg /\ tx' = tx /\ torn' = torn /\ doubled' = doubled
    BY <1>2, Apart
  <2>2. Sessions'
    BY <1>i, <2>1 DEF Sessions, Session, SessionAt, Posted
  <2>3. Unique'
    BY <1>i, <2>1 DEF Unique, BookedOnce
  <2>4. Together' /\ Chained'
    <3>1. /\ DOMAIN outbox' = DOMAIN outbox
          /\ \A i \in DOMAIN outbox : outbox'[i].key = outbox[i].key
      BY <1>i, <1>2, RelayKeys
    <3> QED BY <1>i, <2>1, <3>1 DEF Together, Chained
  <2>5. Status'
    BY <1>i, <2>1 DEF Status, StatusAgrees, Posted
  <2> QED BY <1>t, <2>2, <2>3, <2>4, <2>5 DEF IInv
<1>3. CASE UNCHANGED vars
  <2>1. /\ moves' = moves /\ journal' = journal /\ reversed' = reversed /\ outbox' = outbox
        /\ pc' = pc /\ arg' = arg /\ tx' = tx /\ torn' = torn /\ doubled' = doubled
    BY <1>3, Stutter
  <2>2. Sessions'
    BY <1>i, <2>1 DEF Sessions, Session, SessionAt, Posted
  <2>3. Unique'
    BY <1>i, <2>1 DEF Unique, BookedOnce
  <2>4. Together' /\ Chained'
    BY <1>i, <2>1 DEF Together, Chained
  <2>5. Status'
    BY <1>i, <2>1 DEF Status, StatusAgrees, Posted
  <2> QED BY <1>t, <2>2, <2>3, <2>4, <2>5 DEF IInv
<1> QED BY <1>1, <1>2, <1>3 DEF Next

\* Every key has exactly one row: the rows have different keys.
LEMMA InvTogether == IInv => BookedTogether
<1> SUFFICES ASSUME IInv PROVE BookedTogether
  OBVIOUS
<1>1. Together
  BY DEF IInv
<1>2. ASSUME NEW e \in journal, e.depth = 0 PROVE Cardinality(RowsOf(e.key)) = 1
  <2>1. PICK i \in DOMAIN outbox : outbox[i].key = e.key
    BY <1>1, <1>2 DEF Together
  <2>2. RowsOf(e.key) = {i}
    BY <1>1, <2>1 DEF Together, RowsOf
  <2> QED BY <2>2, FS_Singleton
<1>3. ASSUME NEW m \in moves
      PROVE  \/ MovementEntry(m) \in journal
             \/ \E n \in moves : /\ n.date # m.date /\ KeyOf(n) = KeyOf(m)
                                /\ MovementEntry(n) \in journal
  <2>1. PICK e \in journal : e.depth = 0 /\ e.key = KeyOf(m)
    BY <1>1 DEF Together
  <2>2. PICK n \in moves : MovementEntry(n) = e
    BY <1>1, <2>1 DEF Together
  <2>3. KeyOf(n) = KeyOf(m)
    BY <2>1, <2>2 DEF MovementEntry
  <2>4. n.type = m.type
    BY <2>3 DEF KeyOf
  <2>5. CASE n.date = m.date
    BY <2>2, <2>3, <2>4, <2>5 DEF MovementEntry
  <2>6. CASE n.date # m.date
    BY <2>2, <2>3, <2>6
  <2> QED BY <2>5, <2>6
<1> QED BY <1>1, <1>2, <1>3 DEF Together, BookedTogether

\* The strengthened invariant holds in every reachable state.
THEOREM LedgerInvariant == Spec => []IInv
BY InvInit, InvNext, PTL DEF Spec

\* No idempotency key is posted twice, not even as two identical rows, and no
\* reference is booked for two funds or types, however many requests race and
\* die.
THEOREM NoDoubleBooking == Spec => []BookedOnce
<1>1. IInv => BookedOnce
  BY DEF IInv, Unique
<1> QED BY <1>1, LedgerInvariant, PTL

\* A movement's entry appears in one commit with its movement and its outbox
\* row, and every row has an entry. A movement without an entry of its own is
\* one whose reference was booked for another date, and the movement of that
\* date has the entry (record_unit_movement).
THEOREM MovementEntryAndRow == Spec => []BookedTogether
BY InvTogether, LedgerInvariant, PTL

\* The REVERSED status agrees with the journal, but for the window between the
\* two commits of reverse_entry.
THEOREM StatusFollowsJournal == Spec => []StatusAgrees
<1>1. IInv => StatusAgrees
  BY DEF IInv, Status
<1> QED BY <1>1, LedgerInvariant, PTL

-----------------------------------------------------------------------------
(* The relay. *)

\* Only relay r moves.
RelayFrame(r) == \A y \in Relay \ {r} : rpc'[y] = rpc[y] /\ Row(y)' = Row(y)

SinksStay == stream' = stream /\ logged' = logged

\* What a step of a relay does: it reads rows or ends its pass, hands an event
\* over, marks its row, or gets no connection to mark it.
Idles(r) ==
  /\ rpc'[r] \in {"idle", "publish"} /\ outbox' = outbox /\ SinksStay
  /\ \/ rpc[r] = "idle" /\ errors' = errors
     \/ errors' = errors + 1

HandsOver(r) ==
  /\ rpc[r] = "publish" /\ rpc'[r] = "mark" /\ Row(r)' = Row(r) /\ outbox' = outbox
  /\ \/ /\ stream' = [stream EXCEPT ![outbox[Row(r)].key] = @ + 1]
        /\ logged' = logged /\ errors' = errors
     \/ stream' = stream /\ logged' = logged \cup {outbox[Row(r)].key} /\ errors' = errors + 1

Marks(r) ==
  /\ rpc'[r] \in {"idle", "publish"} /\ SinksStay /\ errors' \in {errors, errors + 1}
  /\ \/ rpc[r] = "mark" /\ SetRow(Row(r), "PUBLISHED")
     \/ /\ rpc[r] = "failed"
        /\ \E status \in {"PENDING", "FAILED"} : SetRow(Row(r), status)

Stalls(r) ==
  /\ rpc[r] = "mark" /\ rpc'[r] = "failed" /\ Row(r)' = Row(r) /\ SinksStay
  /\ errors' = errors + 1 /\ outbox' = outbox

\* These are the only things a step of a relay does.
LEMMA RelayEffect ==
  ASSUME TypeOK, NEW r \in Relay, RelayNext(r)
  PROVE  RelayFrame(r) /\ (Idles(r) \/ HandsOver(r) \/ Marks(r) \/ Stalls(r))
<1>t. rpc \in [Relay -> {"idle", "publish", "mark", "failed"}] /\ todo \in [Relay -> SUBSET DOMAIN outbox]
  BY DEF TypeOK
<1>0. ASSUME NEW l, rpc' = [rpc EXCEPT ![r] = l],
             todo' = todo \/ \E S : todo' = [todo EXCEPT ![r] = S]
      PROVE  RelayFrame(r) /\ rpc'[r] = l
  BY <1>t, <1>0 DEF RelayFrame, Row
<1>1. CASE execute(r)
  <2>1. RelayFrame(r) /\ rpc'[r] = "publish"
    BY <1>0, <1>1 DEF execute
  <2> QED BY <1>1, <2>1 DEF execute, Idles, SinksStay
<1>2. CASE publish(r)
  <2>1. RelayFrame(r) /\ rpc'[r] = "mark"
    BY <1>0, <1>2 DEF publish
  <2>2. Row(r)' = Row(r)
    BY <1>2 DEF publish, Row
  <2> QED BY <1>2, <2>1, <2>2 DEF publish, HandsOver, Fail
<1>e. ASSUME EndPass(r) PROVE RelayFrame(r) /\ rpc'[r] = "idle"
  BY <1>0, <1>e DEF EndPass
<1>3. CASE mark_published(r) \/ mark_failed(r)
  <2>1. NextRow(r)
    BY <1>3 DEF mark_published, mark_failed
  <2>2. ASSUME EndPass(r) PROVE RelayFrame(r) /\ rpc'[r] = "idle"
    BY <1>e, <2>2
  <2>3. ASSUME ~EndPass(r) PROVE RelayFrame(r) /\ rpc'[r] = "publish"
    <3>1. todo' = [todo EXCEPT ![r] = todo[r] \ {Row(r)}] /\ rpc' = [rpc EXCEPT ![r] = "publish"]
      BY <2>1, <2>3 DEF NextRow
    <3> QED BY <1>0, <3>1
  <2>4. RelayFrame(r) /\ rpc'[r] \in {"idle", "publish"}
    BY <2>2, <2>3
  <2>5. CASE mark_failed(r)
    BY <2>4, <2>5, FailedStatusType DEF Marks, SinksStay, mark_failed
  <2>6. CASE mark_published(r)
    BY <2>4, <2>6 DEF Marks, SinksStay, mark_published
  <2> QED BY <1>3, <2>4, <2>5, <2>6
<1>4. CASE ConnectRaises(r)
  <2>1. RelayFrame(r) /\ rpc'[r] = "failed"
    BY <1>0, <1>4 DEF ConnectRaises
  <2>2. Row(r)' = Row(r)
    BY <1>4 DEF ConnectRaises, Row
  <2> QED BY <1>4, <2>1, <2>2 DEF ConnectRaises, Stalls, Fail, SinksStay
<1>5. CASE CommitRaises(r)
  <2>1. RelayFrame(r) /\ rpc'[r] = "idle"
    BY <1>e, <1>5 DEF CommitRaises
  <2>2. CASE outbox' = outbox
    BY <1>5, <2>1, <2>2 DEF CommitRaises, Idles, SinksStay, Fail
  <2>3. CASE outbox' # outbox
    BY <1>5, <2>1, <2>3, FailedStatusType DEF CommitRaises, Marks, SinksStay, Fail
  <2> QED BY <2>1, <2>2, <2>3
<1>6. CASE RelayDies(r)
  <2>1. RelayFrame(r) /\ rpc'[r] = "idle"
    BY <1>e, <1>6 DEF RelayDies
  <2> QED BY <1>6, <2>1 DEF RelayDies, Idles, SinksStay, Fail
<1> QED BY <1>1, <1>2, <1>3, <1>4, <1>5, <1>6 DEF RelayNext, RelayStep

\* A step of a request leaves the rows of the outbox alone and adds PENDING ones.
LEMMA ClientRows ==
  ASSUME IInv, NEW c \in Client, ClientNext(c)
  PROVE  /\ \A i \in DOMAIN outbox : i \in DOMAIN outbox' /\ outbox'[i] = outbox[i]
         /\ \A i \in DOMAIN outbox' \ DOMAIN outbox :
              /\ outbox'[i].status = "PENDING" /\ outbox'[i].attempts = 0
              /\ \A j \in DOMAIN outbox : outbox[j].key # outbox'[i].key
<1>1. \/ outbox' = outbox
      \/ \E m \in Movement : Books(m)
  BY TableStep DEF IInv, TablesStay, StoresKnown, Reverses
<1>2. ASSUME NEW m \in Movement, Books(m)
      PROVE  /\ \A i \in DOMAIN outbox : i \in DOMAIN outbox' /\ outbox'[i] = outbox[i]
             /\ \A i \in DOMAIN outbox' \ DOMAIN outbox : outbox'[i] = NewRow(KeyOf(m))
  BY <1>2 DEF Books, IInv, TypeOK
<1>3. ASSUME NEW m \in Movement, Books(m), NEW j \in DOMAIN outbox PROVE outbox[j].key # KeyOf(m)
  <2>1. PICK e \in journal : e.depth = 0 /\ e.key = outbox[j].key
    BY DEF IInv, Together
  <2>2. ~SameSource(MovementEntry(m), e)
    BY <1>3 DEF Books
  <2> QED BY <2>1, <2>2 DEF SameSource, SameKey, EntryId, MovementEntry
<1> QED BY <1>1, <1>2, <1>3 DEF NewRow

\* A row that a relay has handed over stays handed over.
LEMMA HandedNext == IInv /\ HandedOver /\ [Next]_vars => HandedOver'
<1> SUFFICES ASSUME IInv, HandedOver, [Next]_vars PROVE HandedOver'
  OBVIOUS
<1>t. TypeOK /\ \A r \in Relay : rpc[r] \in {"mark", "failed"} => Row(r) \in DOMAIN outbox
  BY RowType DEF IInv
<1>1. ASSUME NEW c \in Client, ClientNext(c) PROVE HandedOver'
  <2>1. rpc' = rpc /\ todo' = todo /\ stream' = stream /\ logged' = logged
    BY <1>1, Apart
  <2>2. \A r \in Relay : Row(r)' = Row(r)
    BY <2>1 DEF Row
  <2>3. /\ \A i \in DOMAIN outbox : i \in DOMAIN outbox' /\ outbox'[i] = outbox[i]
        /\ \A i \in DOMAIN outbox' \ DOMAIN outbox : outbox'[i].status = "PENDING"
    BY <1>1, ClientRows
  <2>4. AtLeastOnce'
    BY <2>1, <2>3 DEF HandedOver, AtLeastOnce
  <2>5. \A r \in Relay : rpc'[r] \in {"mark", "failed"} => Handed(outbox[Row(r)].key)'
    BY <1>t, <2>1, <2>2, <2>3 DEF HandedOver, Handed
  <2> QED BY <2>4, <2>5 DEF HandedOver
<1>2. ASSUME NEW r \in Relay, RelayNext(r) PROVE HandedOver'
  <2>1. RelayFrame(r) /\ (Idles(r) \/ HandsOver(r) \/ Marks(r) \/ Stalls(r))
    BY <1>t, <1>2, RelayEffect
  <2>2. /\ DOMAIN outbox' = DOMAIN outbox
        /\ \A i \in DOMAIN outbox : outbox'[i].key = outbox[i].key
    BY <1>t, <1>2, RelayKeys
  <2>3. rpc[r] # "idle" => Row(r) \in DOMAIN outbox
    BY <1>t, RowType
  <2>4. \A i \in DOMAIN outbox : outbox[i].key \in Key
    <3>1. ASSUME NEW i \in DOMAIN outbox PROVE outbox[i] \in OutboxRow
      BY <1>t DEF TypeOK
    <3> QED BY <3>1 DEF OutboxRow
  <2>5. \A k \in Key : Handed(k) => Handed(k)'
    <3>1. CASE SinksStay
      BY <3>1 DEF SinksStay, Handed
    <3>2. CASE HandsOver(r)
      BY <1>t, <2>3, <2>4, <3>2 DEF HandsOver, Handed, TypeOK
    <3> QED BY <2>1, <3>1, <3>2 DEF Idles, Marks, Stalls
  <2>6. HandsOver(r) => Handed(outbox[Row(r)].key)'
    <3> SUFFICES ASSUME HandsOver(r) PROVE Handed(outbox[Row(r)].key)'
      OBVIOUS
    <3>1. PICK k \in Key : k = outbox[Row(r)].key
      BY <2>3, <2>4 DEF HandsOver
    <3>2. Row(r)' = Row(r) /\ outbox' = outbox
      BY DEF HandsOver
    <3>3. Handed(k)'
      BY <1>t, <3>1 DEF HandsOver, Handed, TypeOK
    <3> QED BY <3>1, <3>2, <3>3 DEF Handed
  <2>7. ASSUME NEW y \in Relay, rpc'[y] \in {"mark", "failed"}
        PROVE  Handed(outbox[Row(y)].key)'
    <3>1. CASE y # r
      <4>1. rpc[y] = rpc'[y] /\ Row(y)' = Row(y)
        BY <2>1, <3>1 DEF RelayFrame
      <4>2. PICK k \in Key : k = outbox[Row(y)].key
        BY <1>t, <2>4, <2>7, <4>1
      <4>3. Handed(k)' /\ outbox'[Row(y)].key = k
        BY <1>t, <2>2, <2>5, <2>7, <4>1, <4>2 DEF HandedOver
      <4> QED BY <4>1, <4>3 DEF Handed
    <3>2. CASE y = r /\ Stalls(r)
      <4>1. rpc[r] = "mark" /\ Row(r)' = Row(r)
        BY <3>2 DEF Stalls
      <4>2. PICK k \in Key : k = outbox[Row(r)].key
        BY <2>3, <2>4, <4>1
      <4>3. Handed(k)' /\ outbox'[Row(r)].key = k
        BY <1>t, <2>2, <2>5, <4>1, <4>2 DEF HandedOver
      <4> QED BY <3>2, <4>1, <4>3 DEF Handed
    <3> QED BY <2>1, <2>6, <2>7, <3>1, <3>2 DEF Idles, Marks
  <2>8. ASSUME NEW i \in DOMAIN outbox', outbox'[i].status # "PENDING"
        PROVE  Handed(outbox[i].key)'
    <3>1. PICK k \in Key : k = outbox[i].key
      BY <2>2, <2>4
    <3>2. outbox'[i].key = k
      BY <2>2, <3>1
    <3>3. CASE outbox'[i] = outbox[i]
      <4>1. Handed(k)
        BY <2>2, <2>8, <3>1, <3>3 DEF HandedOver, AtLeastOnce, Handed
      <4> QED BY <2>5, <3>2, <4>1 DEF Handed
    <3>4. CASE outbox'[i] # outbox[i]
      <4>1. rpc[r] \in {"mark", "failed"} /\ \E st \in {"PENDING", "PUBLISHED", "FAILED"} : SetRow(Row(r), st)
        BY <2>1, <3>4 DEF Idles, HandsOver, Marks, Stalls
      <4>2. i = Row(r)
        BY <1>t, <2>2, <2>3, <3>4, <4>1, SetRowType
      <4>3. Handed(k)
        BY <3>1, <4>1, <4>2 DEF HandedOver
      <4> QED BY <2>5, <3>2, <4>3 DEF Handed
    <3> QED BY <3>3, <3>4
  <2>9. AtLeastOnce'
    BY <2>8 DEF AtLeastOnce, Handed
  <2> QED BY <2>7, <2>9 DEF HandedOver
<1>3. CASE UNCHANGED vars
  BY <1>3, Stutter DEF HandedOver, AtLeastOnce, Handed, Row
<1> QED BY <1>1, <1>2, <1>3 DEF Next

\* A row marked PUBLISHED or FAILED reached the stream or the log.
THEOREM PublishedWasHandedOver == Spec => []AtLeastOnce
<1>1. Init => HandedOver
  BY DEF Init, HandedOver, AtLeastOnce
<1>2. HandedOver => AtLeastOnce
  BY DEF HandedOver
<1> QED BY <1>1, <1>2, HandedNext, LedgerInvariant, PTL DEF Spec

\* A relay whose pass overlapped no other relay's is the only one that runs,
\* and the rows it has yet to handle are as it read them.
Alone ==
  \A r \in Relay \ rivals : rpc[r] # "idle" =>
    /\ \A y \in Relay \ {r} : rpc[y] = "idle"
    /\ \A i \in todo[r] : outbox[i].status = "PENDING"

\* A step of a pass under way: the relay stays a rival until its pass ends, and
\* the only row it changes is one it is done with.
LEMMA PassEffect ==
  ASSUME TypeOK, NEW r \in Relay, RelayNext(r), ~execute(r)
  PROVE  /\ rpc[r] # "idle"
         /\ \A y \in Relay \ {r} : rpc'[y] = rpc[y]
         /\ rivals' = rivals \/ (rivals' = rivals \ {r} /\ rpc'[r] = "idle")
         /\ rpc'[r] # "idle" =>
              /\ todo'[r] \subseteq todo[r]
              /\ \A i \in todo'[r] : outbox'[i] = outbox[i]
<1>t. rpc \in [Relay -> {"idle", "publish", "mark", "failed"}] /\ todo \in [Relay -> SUBSET DOMAIN outbox]
  BY DEF TypeOK
<1>e. EndPass(r) => /\ \A y \in Relay \ {r} : rpc'[y] = rpc[y]
                    /\ rivals' = rivals \ {r} /\ rpc'[r] = "idle"
  BY <1>t DEF EndPass
<1>1. CASE publish(r) \/ ConnectRaises(r)
  <2>1. /\ rpc[r] # "idle" /\ rivals' = rivals /\ todo' = todo /\ outbox' = outbox
        /\ \E l \in {"mark", "failed"} : rpc' = [rpc EXCEPT ![r] = l]
    BY <1>1 DEF publish, ConnectRaises
  <2> QED BY <1>t, <2>1
<1>2. CASE CommitRaises(r) \/ RelayDies(r)
  <2>1. rpc[r] # "idle" /\ EndPass(r)
    BY <1>2 DEF CommitRaises, RelayDies
  <2> QED BY <1>e, <2>1
<1>3. CASE mark_published(r) \/ mark_failed(r)
  <2>1. /\ rpc[r] # "idle" /\ NextRow(r)
        /\ \E st \in {"PENDING", "PUBLISHED", "FAILED"} : SetRow(Row(r), st)
    BY <1>3, FailedStatusType DEF mark_published, mark_failed
  <2>2. Row(r) \in DOMAIN outbox
    BY <2>1, RowType
  <2>3. \A i \in DOMAIN outbox : i # Row(r) => outbox'[i] = outbox[i]
    BY <2>1, <2>2, SetRowType
  <2>4. CASE EndPass(r)
    BY <1>e, <2>1, <2>4
  <2>5. CASE ~EndPass(r)
    <3>1. /\ todo' = [todo EXCEPT ![r] = todo[r] \ {Row(r)}]
          /\ rpc' = [rpc EXCEPT ![r] = "publish"] /\ rivals' = rivals
      BY <2>1, <2>5 DEF NextRow
    <3>2. todo'[r] = todo[r] \ {Row(r)} /\ todo[r] \subseteq DOMAIN outbox
      BY <1>t, <3>1
    <3>3. \A y \in Relay \ {r} : rpc'[y] = rpc[y]
      BY <1>t, <3>1
    <3> QED BY <2>1, <2>3, <3>1, <3>2, <3>3
  <2> QED BY <2>4, <2>5
<1> QED BY <1>1, <1>2, <1>3 DEF RelayNext, RelayStep

\* A relay that starts makes itself and those that run rivals.
LEMMA AloneExecute ==
  ASSUME TypeOK, Alone, NEW r \in Relay, execute(r)
  PROVE  Alone'
<1>t. rpc \in [Relay -> {"idle", "publish", "mark", "failed"}] /\ todo \in [Relay -> SUBSET DOMAIN outbox]
  BY DEF TypeOK
<1>1. /\ rpc'[r] = "publish" /\ todo'[r] = pending_outbox /\ outbox' = outbox
      /\ \A y \in Relay \ {r} : rpc'[y] = rpc[y]
  BY <1>t DEF execute
<1>2. rivals' = IF Running = {} THEN rivals ELSE rivals \cup Running \cup {r}
  BY DEF execute
<1>3. CASE Running = {}
  <2>1. \A y \in Relay : rpc[y] = "idle"
    BY <1>3 DEF Running
  <2>2. \A i \in todo'[r] : outbox'[i].status = "PENDING"
    BY <1>1 DEF pending_outbox
  <2> QED BY <1>1, <2>1, <2>2 DEF Alone
<1>4. CASE Running # {}
  <2>1. \A y \in Relay \ rivals' : rpc'[y] = "idle"
    BY <1>1, <1>2, <1>4 DEF Running
  <2> QED BY <2>1 DEF Alone
<1> QED BY <1>3, <1>4

\* Every step keeps a relay that runs alone alone, or makes it a rival.
LEMMA AloneNext == IInv /\ Alone /\ [Next]_vars => Alone'
<1> SUFFICES ASSUME IInv, Alone, [Next]_vars PROVE Alone'
  OBVIOUS
<1>t. TypeOK /\ todo \in [Relay -> SUBSET DOMAIN outbox]
  BY DEF IInv, TypeOK
<1>1. ASSUME NEW c \in Client, ClientNext(c) PROVE Alone'
  <2>1. rpc' = rpc /\ todo' = todo /\ rivals' = rivals
    BY <1>1, Apart
  <2>2. \A i \in DOMAIN outbox : outbox'[i] = outbox[i]
    BY <1>1, ClientRows
  <2> QED BY <1>t, <2>1, <2>2 DEF Alone
<1>2. ASSUME NEW r \in Relay, RelayNext(r) PROVE Alone'
  <2>1. CASE execute(r)
    BY <1>t, <2>1, AloneExecute
  <2>2. CASE ~execute(r)
    <3>1. /\ rpc[r] # "idle"
          /\ \A y \in Relay \ {r} : rpc'[y] = rpc[y]
          /\ rivals' = rivals \/ (rivals' = rivals \ {r} /\ rpc'[r] = "idle")
          /\ rpc'[r] # "idle" =>
               /\ todo'[r] \subseteq todo[r]
               /\ \A i \in todo'[r] : outbox'[i] = outbox[i]
      BY <1>t, <1>2, <2>2, PassEffect
    <3>2. ASSUME NEW y \in Relay \ rivals', rpc'[y] # "idle"
          PROVE  /\ \A z \in Relay \ {y} : rpc'[z] = "idle"
                 /\ \A i \in todo'[y] : outbox'[i].status = "PENDING"
      <4>1. y \notin rivals
        BY <3>1, <3>2
      <4>2. y = r
        BY <3>1, <3>2, <4>1 DEF Alone
      <4> QED BY <3>1, <3>2, <4>1, <4>2 DEF Alone
    <3> QED BY <3>2 DEF Alone
  <2> QED BY <2>1, <2>2
<1>3. CASE UNCHANGED vars
  BY <1>3, Stutter DEF Alone
<1> QED BY <1>1, <1>2, <1>3 DEF Next

\* A relay whose pass overlapped no other's never takes a PUBLISHED row back:
\* when its mark_failed comes to a row, the row is PENDING.
THEOREM PublishedIsFinal == Spec => PublishedStays
<1>1. IInv /\ Alone /\ [Next]_vars =>
        [\A i \in DOMAIN outbox :
           outbox[i].status = "PUBLISHED" /\ outbox'[i].status # "PUBLISHED" =>
             \E r \in rivals : rpc[r] = "failed" /\ Row(r) = i]_vars
  <2> SUFFICES ASSUME IInv, Alone, Next, NEW i \in DOMAIN outbox,
                      outbox[i].status = "PUBLISHED", outbox'[i].status # "PUBLISHED"
               PROVE  \E r \in rivals : rpc[r] = "failed" /\ Row(r) = i
    OBVIOUS
  <2>1. ASSUME NEW c \in Client, ClientNext(c) PROVE FALSE
    BY <2>1, ClientRows
  <2>2. ASSUME NEW r \in Relay, RelayNext(r)
        PROVE  r \in rivals /\ rpc[r] = "failed" /\ Row(r) = i
    <3>1. Idles(r) \/ HandsOver(r) \/ Marks(r) \/ Stalls(r)
      BY <2>2, RelayEffect DEF IInv
    <3>2. PICK st \in {"PENDING", "PUBLISHED", "FAILED"} :
            /\ SetRow(Row(r), st) /\ rpc[r] \in {"mark", "failed"}
            /\ rpc[r] = "mark" => st = "PUBLISHED"
      BY <3>1 DEF Idles, HandsOver, Marks, Stalls
    <3>3. Row(r) \in DOMAIN outbox /\ Row(r) \in todo[r]
      BY <3>2, RowType DEF IInv
    <3>4. /\ \A j \in DOMAIN outbox : j # Row(r) => outbox'[j] = outbox[j]
          /\ outbox'[Row(r)].status = st
      BY <3>2, <3>3, SetRowType DEF IInv
    <3>5. rpc[r] = "failed" /\ Row(r) = i
      BY <3>2, <3>4
    <3>6. r \in rivals
      BY <3>3, <3>5 DEF Alone
    <3> QED BY <3>5, <3>6
  <2> QED BY <2>1, <2>2 DEF Next
<1>2. Init => Alone
  BY DEF Init, Alone
<1> QED BY <1>1, <1>2, AloneNext, LedgerInvariant, PTL DEF Spec, PublishedStays

-----------------------------------------------------------------------------
(* How often an event reaches the stream. *)

\* Sets of relays are finite.
LEMMA HoldersFinite ==
  ASSUME NEW H \in SUBSET Relay
  PROVE  IsFiniteSet(H) /\ Cardinality(H) \in Nat
BY RelayAssumption, FS_Subset, FS_CardinalityType

\* Two sets of relays that differ at most in relay r.
LEMMA HoldersDiffer ==
  ASSUME NEW H \in SUBSET Relay, NEW G \in SUBSET Relay, NEW r \in Relay,
         \A y \in Relay \ {r} : y \in H <=> y \in G
  PROVE  /\ r \in H /\ r \in G => Cardinality(G) = Cardinality(H)
         /\ r \notin H /\ r \notin G => Cardinality(G) = Cardinality(H)
         /\ r \in H /\ r \notin G => Cardinality(G) = Cardinality(H) - 1
         /\ r \notin H /\ r \in G => Cardinality(G) = Cardinality(H) + 1
<1>1. IsFiniteSet(H) /\ IsFiniteSet(G) /\ Cardinality(H) \in Nat /\ Cardinality(G) \in Nat
  BY HoldersFinite
<1>2. H \ {r} = G \ {r}
  OBVIOUS
<1>3. /\ Cardinality(H \ {r}) = IF r \in H THEN Cardinality(H) - 1 ELSE Cardinality(H)
      /\ Cardinality(G \ {r}) = IF r \in G THEN Cardinality(G) - 1 ELSE Cardinality(G)
  BY <1>1, FS_RemoveElement
<1> QED BY <1>1, <1>2, <1>3

\* A step of a relay keeps the bound of every row.
LEMMA StreamRelay ==
  ASSUME IInv, StreamBound, NEW r \in Relay, RelayNext(r), NEW i \in DOMAIN outbox
  PROVE  stream'[outbox[i].key] <= outbox'[i].attempts + errors' + Cardinality(Holders(i)')
<1>t. TypeOK
  BY DEF IInv
<1>1. RelayFrame(r) /\ (Idles(r) \/ HandsOver(r) \/ Marks(r) \/ Stalls(r))
  BY <1>t, RelayEffect
<1>2. PICK H \in SUBSET Relay : H = Holders(i)
  BY DEF Holders
<1>3. PICK G \in SUBSET Relay : G = Holders(i)'
  BY DEF Holders
<1>4. Cardinality(H) \in Nat /\ Cardinality(G) \in Nat
  BY HoldersFinite
<1>5. /\ r \in H <=> rpc[r] \in {"mark", "failed"} /\ Row(r) = i
      /\ r \in G <=> rpc'[r] \in {"mark", "failed"} /\ Row(r)' = i
  BY <1>2, <1>3 DEF Holders
<1>6. \A y \in Relay \ {r} : y \in H <=> y \in G
  BY <1>1, <1>2, <1>3 DEF Holders, RelayFrame
<1>7. /\ r \in H /\ r \in G => Cardinality(G) = Cardinality(H)
      /\ r \notin H /\ r \notin G => Cardinality(G) = Cardinality(H)
      /\ r \in H /\ r \notin G => Cardinality(G) = Cardinality(H) - 1
      /\ r \notin H /\ r \in G => Cardinality(G) = Cardinality(H) + 1
  BY <1>6, HoldersDiffer
<1>8. PICK k \in Key, a \in Nat : k = outbox[i].key /\ a = outbox[i].attempts
  <2>1. outbox[i] \in OutboxRow
    BY <1>t DEF TypeOK
  <2> QED BY <2>1 DEF OutboxRow
<1>9. /\ stream[k] \in Nat /\ errors \in Nat
      /\ stream[k] <= a + errors + Cardinality(H)
  BY <1>t, <1>2, <1>8 DEF TypeOK, StreamBound
<1>10. rpc[r] # "idle" => Row(r) \in DOMAIN outbox
  BY <1>t, RowType
<1>11. ASSUME NEW st \in {"PENDING", "PUBLISHED", "FAILED"}, SetRow(Row(r), st), rpc[r] # "idle"
       PROVE  outbox'[i].attempts = IF Row(r) = i THEN a + 1 ELSE a
  BY <1>t, <1>8, <1>10, <1>11, SetRowType
<1>12. CASE Idles(r)
  <2>1. stream' = stream /\ outbox'[i].attempts = a /\ r \notin G
    BY <1>5, <1>8, <1>12 DEF Idles, SinksStay
  <2>2. errors' = errors + 1 \/ (errors' = errors /\ r \notin H)
    BY <1>5, <1>12 DEF Idles
  <2> QED BY <1>3, <1>4, <1>7, <1>8, <1>9, <2>1, <2>2
<1>13. CASE HandsOver(r)
  <2>1. outbox'[i].attempts = a /\ r \notin H /\ (r \in G <=> Row(r) = i)
    BY <1>5, <1>8, <1>13 DEF HandsOver
  <2>2. CASE stream' = [stream EXCEPT ![outbox[Row(r)].key] = @ + 1] /\ errors' = errors
    <3>1. CASE Row(r) = i
      <4>1. stream'[k] = stream[k] + 1
        BY <1>t, <1>8, <2>2, <3>1 DEF TypeOK
      <4> QED BY <1>3, <1>4, <1>7, <1>8, <1>9, <2>1, <2>2, <3>1, <4>1
    <3>2. CASE Row(r) # i
      <4>1. outbox[Row(r)].key # k
        BY <1>8, <1>10, <1>13, <3>2 DEF HandsOver, IInv, Together
      <4>2. stream'[k] = stream[k]
        BY <1>t, <2>2, <4>1 DEF TypeOK
      <4> QED BY <1>3, <1>4, <1>7, <1>8, <1>9, <2>1, <2>2, <3>2, <4>2
    <3> QED BY <3>1, <3>2
  <2>3. CASE stream' = stream /\ errors' = errors + 1
    BY <1>3, <1>4, <1>7, <1>8, <1>9, <2>1, <2>3
  <2> QED BY <1>13, <2>2, <2>3 DEF HandsOver
<1>14. CASE Marks(r)
  <2>1. stream' = stream /\ errors' \in {errors, errors + 1} /\ r \notin G
    BY <1>5, <1>14 DEF Marks, SinksStay
  <2>2. outbox'[i].attempts = IF Row(r) = i THEN a + 1 ELSE a
    BY <1>11, <1>14 DEF Marks
  <2>3. r \in H <=> Row(r) = i
    BY <1>5, <1>14 DEF Marks
  <2> QED BY <1>3, <1>4, <1>7, <1>8, <1>9, <2>1, <2>2, <2>3
<1>15. CASE Stalls(r)
  <2>1. stream' = stream /\ errors' = errors + 1 /\ (r \in H <=> r \in G)
    BY <1>5, <1>15 DEF Stalls, SinksStay
  <2>2. outbox'[i].attempts = a
    BY <1>8, <1>15 DEF Stalls
  <2> QED BY <1>3, <1>4, <1>7, <1>8, <1>9, <2>1, <2>2
<1> QED BY <1>1, <1>12, <1>13, <1>14, <1>15

\* Every step keeps the bound.
LEMMA StreamNext == IInv /\ IInv' /\ StreamBound /\ [Next]_vars => StreamBound'
<1> SUFFICES ASSUME IInv, IInv', StreamBound, [Next]_vars PROVE StreamBound'
  OBVIOUS
<1>t. TypeOK /\ TypeOK'
  BY DEF IInv
<1>k. /\ \A i \in DOMAIN outbox : outbox[i].key \in Key /\ outbox[i].attempts \in Nat
      /\ \A i \in DOMAIN outbox' : outbox'[i].key \in Key /\ outbox'[i].attempts \in Nat
  <2>1. ASSUME NEW i \in DOMAIN outbox PROVE outbox[i] \in OutboxRow
    BY <1>t DEF TypeOK
  <2>2. ASSUME NEW i \in DOMAIN outbox' PROVE outbox'[i] \in OutboxRow
    BY <1>t DEF TypeOK
  <2> QED BY <2>1, <2>2 DEF OutboxRow
<1>1. ASSUME NEW c \in Client, ClientNext(c) PROVE StreamBound'
  <2>1. rpc' = rpc /\ todo' = todo /\ stream' = stream /\ errors' = errors
    BY <1>1, Apart
  <2>2. /\ \A i \in DOMAIN outbox : i \in DOMAIN outbox' /\ outbox'[i] = outbox[i]
        /\ \A i \in DOMAIN outbox' \ DOMAIN outbox :
             /\ outbox'[i].attempts = 0
             /\ \A j \in DOMAIN outbox : outbox[j].key # outbox'[i].key
    BY <1>1, ClientRows
  <2>3. \A k \in Key : stream'[k] > 0 => RowsOf(k)' # {}
    BY <2>1, <2>2 DEF StreamBound, RowsOf
  <2>4. ASSUME NEW i \in DOMAIN outbox'
        PROVE  stream'[outbox'[i].key] <= outbox'[i].attempts + errors' + Cardinality(Holders(i)')
    <3>1. Holders(i)' = Holders(i)
      BY <2>1 DEF Holders, Row
    <3>2. CASE i \in DOMAIN outbox
      BY <2>1, <2>2, <3>1, <3>2 DEF StreamBound
    <3>3. CASE i \notin DOMAIN outbox
      <4>1. PICK k \in Key : k = outbox'[i].key
        BY <1>k
      <4>2. RowsOf(k) = {}
        BY <2>2, <3>3, <4>1 DEF RowsOf
      <4>3. stream[k] \in Nat /\ ~(stream[k] > 0) /\ errors \in Nat
        BY <1>t, <4>2 DEF StreamBound, TypeOK
      <4>4. Holders(i) \in SUBSET Relay
        BY DEF Holders
      <4>5. Cardinality(Holders(i)) \in Nat
        BY <4>4, HoldersFinite
      <4> QED BY <2>1, <2>2, <3>1, <3>3, <4>1, <4>3, <4>5
    <3> QED BY <3>2, <3>3
  <2> QED BY <2>3, <2>4 DEF StreamBound
<1>2. ASSUME NEW r \in Relay, RelayNext(r) PROVE StreamBound'
  <2>1. /\ DOMAIN outbox' = DOMAIN outbox
        /\ \A i \in DOMAIN outbox : outbox'[i].key = outbox[i].key
    BY <1>t, <1>2, RelayKeys
  <2>2. \A i \in DOMAIN outbox' :
          stream'[outbox'[i].key] <= outbox'[i].attempts + errors' + Cardinality(Holders(i)')
    BY <1>2, <2>1, StreamRelay
  <2>3. ASSUME NEW k \in Key, stream'[k] > 0 PROVE RowsOf(k)' # {}
    <3>1. RowsOf(k)' = RowsOf(k)
      BY <2>1 DEF RowsOf
    <3>2. CASE stream' = stream
      BY <2>3, <3>1, <3>2 DEF StreamBound
    <3>3. CASE stream' = [stream EXCEPT ![outbox[Row(r)].key] = @ + 1] /\ rpc[r] = "publish"
      <4>1. Row(r) \in DOMAIN outbox
        BY <1>t, <3>3, RowType
      <4>2. CASE k = outbox[Row(r)].key
        BY <3>1, <4>1, <4>2 DEF RowsOf
      <4>3. CASE k # outbox[Row(r)].key
        <5>1. stream'[k] = stream[k]
          BY <1>t, <3>3, <4>3 DEF TypeOK
        <5> QED BY <2>3, <3>1, <5>1 DEF StreamBound
      <4> QED BY <4>2, <4>3
    <3> QED BY <1>t, <1>2, <3>2, <3>3, RelayEffect
            DEF Idles, HandsOver, Marks, Stalls, SinksStay
  <2> QED BY <2>2, <2>3 DEF StreamBound
<1>3. CASE UNCHANGED vars
  <2>1. \A i : Holders(i)' = Holders(i)
    BY <1>3, Stutter DEF Holders, Row
  <2> QED BY <1>3, <2>1, Stutter DEF StreamBound, RowsOf
<1> QED BY <1>1, <1>2, <1>3 DEF Next

\* Only events of committed entries reach the stream, and not more often than
\* the row was marked, is held by a relay, or a failure hit it.
THEOREM StreamIsBounded == Spec => []OnlyCommittedEvents
<1>1. Init => StreamBound
  <2> SUFFICES ASSUME Init PROVE StreamBound
    OBVIOUS
  <2>1. DOMAIN outbox = {} /\ \A k \in Key : ~(stream[k] > 0)
    BY DEF Init
  <2> QED BY <2>1 DEF StreamBound
<1>2. IInv /\ StreamBound => OnlyCommittedEvents
  <2> SUFFICES ASSUME IInv, StreamBound, NEW k \in Key, stream[k] > 0
               PROVE  \E i \in RowsOf(k) :
                        stream[k] <= outbox[i].attempts + errors + Cardinality(Holders(i))
    BY DEF OnlyCommittedEvents, Holders
  <2>1. PICK i \in RowsOf(k) : TRUE
    BY DEF StreamBound
  <2> QED BY <2>1 DEF RowsOf, StreamBound
<1> QED BY <1>1, <1>2, StreamNext, LedgerInvariant, PTL DEF Spec

-----------------------------------------------------------------------------
(* Reversals cancel. *)

\* Swapping the sides twice gives the lines back.
LEMMA ReversedTwice ==
  ASSUME NEW lines \in SUBSET Line
  PROVE  ReversedLines(ReversedLines(lines)) = lines
<1>0. \A l \in Line :
        l = [account |-> l.account, debit |-> l.debit, credit |-> l.credit]
  BY DEF Line
<1>1. ASSUME NEW x \in ReversedLines(ReversedLines(lines)) PROVE x \in lines
  <2>1. PICK y \in ReversedLines(lines) :
          x = [account |-> y.account, debit |-> y.credit, credit |-> y.debit]
    BY <1>1 DEF ReversedLines
  <2>2. PICK l \in lines : y = [account |-> l.account, debit |-> l.credit, credit |-> l.debit]
    BY DEF ReversedLines
  <2>3. x = [account |-> l.account, debit |-> l.debit, credit |-> l.credit]
    BY <2>1, <2>2
  <2> QED BY <1>0, <2>3
<1>2. ASSUME NEW l \in lines PROVE l \in ReversedLines(ReversedLines(lines))
  <2> DEFINE y == [account |-> l.account, debit |-> l.credit, credit |-> l.debit]
  <2>1. y \in ReversedLines(lines)
    BY DEF ReversedLines
  <2>2. [account |-> y.account, debit |-> y.credit, credit |-> y.debit]
          \in ReversedLines(ReversedLines(lines))
    BY <2>1 DEF ReversedLines
  <2>3. [account |-> y.account, debit |-> y.credit, credit |-> y.debit] = l
    BY <1>0
  <2> QED BY <2>2, <2>3
<1> QED BY <1>1, <1>2

\* One reversal more swaps the sides.
LEMMA SidesNext ==
  ASSUME NEW t \in Type, NEW n \in Nat
  PROVE  Sides(t, n + 1) = ReversedLines(Sides(t, n))
<1>1. (n + 1) % 2 = 0 <=> n % 2 # 0
  OBVIOUS
<1>2. ReversedLines(ReversedLines(build_unit_movement_lines(t))) = build_unit_movement_lines(t)
  BY BuildType, ReversedTwice
<1> QED BY <1>1, <1>2 DEF Sides

\* A new entry x of key k whose depth is the number of entries before it.
LEMMA NumberedAdd ==
  ASSUME TypeOK, NEW k \in Key, NEW x, x \notin journal, x.key = k,
         x.depth = Cardinality(EntriesOf(k)), journal' = journal \cup {x}, Numbered
  PROVE  /\ IsFiniteSet(EntriesOf(k)')
         /\ \A e \in EntriesOf(k)' : e.depth < Cardinality(EntriesOf(k)')
         /\ \A j \in Nat : j < Cardinality(EntriesOf(k)') => \E e \in EntriesOf(k)' : e.depth = j
         /\ Cardinality(Even(k)') =
              Cardinality(Odd(k)') + (IF Cardinality(EntriesOf(k)') % 2 = 0 THEN 0 ELSE 1)
<1>1. PICK S : S = EntriesOf(k)
  OBVIOUS
<1>2. PICK E : E = Even(k)
  OBVIOUS
<1>3. PICK O : O = Odd(k)
  OBVIOUS
<1>4. /\ IsFiniteSet(S) /\ \A e \in S : e.depth < Cardinality(S)
      /\ \A j \in Nat : j < Cardinality(S) => \E e \in S : e.depth = j
      /\ Cardinality(E) = Cardinality(O) + (IF Cardinality(S) % 2 = 0 THEN 0 ELSE 1)
  BY <1>1, <1>2, <1>3 DEF Numbered
<1>5. E \in SUBSET S /\ O \in SUBSET S
  BY <1>1, <1>2, <1>3 DEF Even, Odd
<1>6. IsFiniteSet(E) /\ IsFiniteSet(O)
  BY <1>4, <1>5, FS_Subset
<1>7. Cardinality(S) \in Nat /\ Cardinality(E) \in Nat /\ Cardinality(O) \in Nat
  BY <1>4, <1>6, FS_CardinalityType
<1>8. x \notin S /\ x \notin E /\ x \notin O
  BY <1>1, <1>2, <1>3 DEF EntriesOf, Even, Odd
<1>9. EntriesOf(k)' = S \cup {x}
  BY <1>1 DEF EntriesOf
<1>10. IsFiniteSet(S \cup {x}) /\ Cardinality(S \cup {x}) = Cardinality(S) + 1
  BY <1>4, <1>8, FS_AddElement
<1>11. PICK n \in Nat : n = Cardinality(S)
  BY <1>7
<1>12. \A e \in S \cup {x} : e.depth < n + 1
  <2>1. ASSUME NEW e \in S PROVE e.depth < n + 1
    <3>1. e.depth \in 0..MaxDepth
      BY <1>1 DEF EntriesOf, TypeOK, Entry
    <3>2. e.depth < n
      BY <1>4, <1>11
    <3> QED BY <3>1, <3>2, BoundAssumption
  <2>2. x.depth < n + 1
    BY <1>1, <1>11
  <2> QED BY <2>1, <2>2
<1>13. ASSUME NEW j \in Nat, j < n + 1 PROVE \E e \in S \cup {x} : e.depth = j
  <2>1. CASE j < n
    BY <1>4, <1>11, <2>1
  <2>2. CASE j = n
    BY <1>1, <1>11, <2>2
  <2> QED BY <1>13, <2>1, <2>2
<1>14. Cardinality(Even(k)') =
         Cardinality(Odd(k)') + (IF (n + 1) % 2 = 0 THEN 0 ELSE 1)
  <2>1. CASE n % 2 = 0
    <3>1. x.depth % 2 = 0 /\ ~(x.depth % 2 = 1) /\ (n + 1) % 2 # 0
      BY <1>1, <1>11, <2>1
    <3>2. Even(k)' = E \cup {x} /\ Odd(k)' = O
      BY <1>1, <1>2, <1>3, <1>9, <3>1 DEF Even, Odd
    <3>3. Cardinality(E \cup {x}) = Cardinality(E) + 1
      BY <1>6, <1>8, FS_AddElement
    <3> QED BY <1>4, <1>7, <1>11, <2>1, <3>1, <3>2, <3>3
  <2>2. CASE n % 2 # 0
    <3>1. x.depth % 2 = 1 /\ ~(x.depth % 2 = 0) /\ (n + 1) % 2 = 0
      BY <1>1, <1>11, <2>2
    <3>2. Even(k)' = E /\ Odd(k)' = O \cup {x}
      BY <1>1, <1>2, <1>3, <1>9, <3>1 DEF Even, Odd
    <3>3. Cardinality(O \cup {x}) = Cardinality(O) + 1
      BY <1>6, <1>8, FS_AddElement
    <3> QED BY <1>4, <1>7, <1>11, <2>2, <3>1, <3>2, <3>3
  <2> QED BY <2>1, <2>2
<1> QED BY <1>9, <1>10, <1>11, <1>12, <1>13, <1>14

\* Every new entry is the next one of its key, with the sides of its depth.
LEMMA NumberedNext ==
  ASSUME IInv, Numbered, NEW k \in Key, NEW x, x.key = k, journal' = journal \cup {x},
         x \notin journal, x.depth = Cardinality(EntriesOf(k)), x.lines = Sides(k.type, x.depth)
  PROVE  Numbered'
<1>1. ASSUME NEW h \in Key
      PROVE  /\ IsFiniteSet(EntriesOf(h)')
             /\ \A e \in EntriesOf(h)' : e.depth < Cardinality(EntriesOf(h)')
             /\ \A j \in Nat : j < Cardinality(EntriesOf(h)') =>
                  \E e \in EntriesOf(h)' : e.depth = j
             /\ Cardinality(Even(h)') =
                  Cardinality(Odd(h)') + (IF Cardinality(EntriesOf(h)') % 2 = 0 THEN 0 ELSE 1)
  <2>1. CASE h = k
    BY <2>1, NumberedAdd DEF IInv
  <2>2. CASE h # k
    <3>1. EntriesOf(h)' = EntriesOf(h)
      BY <2>2 DEF EntriesOf
    <3>2. Even(h)' = Even(h) /\ Odd(h)' = Odd(h)
      BY <3>1 DEF Even, Odd
    <3> QED BY <3>1, <3>2 DEF Numbered
  <2> QED BY <2>1, <2>2
<1>2. \A e \in journal' : e.lines = Sides(e.key.type, e.depth)
  BY DEF Numbered
<1> QED BY <1>1, <1>2 DEF Numbered

\* Every step keeps the numbering.
LEMMA NumberedStep == IInv /\ Numbered /\ [Next]_vars => Numbered'
<1> SUFFICES ASSUME IInv, Numbered, [Next]_vars PROVE Numbered'
  OBVIOUS
<1>t. journal \subseteq Entry
  BY DEF IInv, TypeOK
<1>0. CASE journal' = journal
  <2>1. \A k \in Key : EntriesOf(k)' = EntriesOf(k) /\ Even(k)' = Even(k) /\ Odd(k)' = Odd(k)
    BY <1>0 DEF EntriesOf, Even, Odd
  <2> QED BY <1>0, <2>1 DEF Numbered
<1>1. ASSUME NEW m \in Movement, Books(m) PROVE Numbered'
  <2> DEFINE x == MovementEntry(m)
  <2>1. x.key = KeyOf(m) /\ x.depth = 0 /\ x.key \in Key
    BY MovementEntryType DEF MovementEntry
  <2>2. x.lines = Sides(x.key.type, x.depth)
    BY DEF MovementEntry, KeyOf, Sides
  <2>3. \A f \in journal : ~SameSource(x, f)
    BY <1>1 DEF Books
  <2>4. x \notin journal
    BY <2>3 DEF SameSource, SameKey
  <2>5. Cardinality(EntriesOf(x.key)) = 0
    <3>1. Cardinality(EntriesOf(x.key)) \in Nat
      BY <2>1, FS_CardinalityType DEF Numbered
    <3>2. ASSUME NEW e \in EntriesOf(x.key), e.depth = 0 PROVE FALSE
      <4>1. e \in journal /\ SameSource(x, e)
        BY <2>1, <3>2 DEF EntriesOf, SameSource, SameKey, EntryId
      <4> QED BY <2>3, <4>1
    <3>3. 0 < Cardinality(EntriesOf(x.key)) => \E e \in EntriesOf(x.key) : e.depth = 0
      BY <2>1 DEF Numbered
    <3> QED BY <3>1, <3>2, <3>3
  <2>6. journal' = journal \cup {x}
    BY <1>1 DEF Books
  <2> HIDE DEF x
  <2> QED BY <2>1, <2>2, <2>4, <2>5, <2>6, NumberedNext
<1>2. ASSUME NEW e \in journal, Reverses(e) PROVE Numbered'
  <2> DEFINE x == ReversalEntry(e)
  <2>1. /\ x.key = e.key /\ x.depth = e.depth + 1 /\ x.lines = ReversedLines(e.lines)
        /\ e.depth \in Nat /\ e.key \in Key /\ e.key.type \in Type
    BY <1>t, ReversalFields, BoundAssumption DEF Entry, Key
  <2>2. x.lines = Sides(x.key.type, x.depth)
    <3>1. e.lines = Sides(e.key.type, e.depth)
      BY DEF Numbered
    <3> HIDE DEF x
    <3> QED BY <2>1, <3>1, SidesNext
  <2>3. \A f \in journal : ~SameSource(x, f)
    BY <1>2 DEF Reverses
  <2>4. x \notin journal
    BY <2>3 DEF SameSource, SameKey
  <2>5. journal' = journal \cup {x}
    BY <1>2 DEF Reverses
  <2> HIDE DEF x
  <2>6. x.depth = Cardinality(EntriesOf(x.key))
    <3>1. Cardinality(EntriesOf(x.key)) \in Nat
      BY <2>1, FS_CardinalityType DEF Numbered
    <3>2. e.depth < Cardinality(EntriesOf(x.key))
      BY <2>1 DEF Numbered, EntriesOf
    <3>3. ASSUME NEW f \in EntriesOf(x.key), f.depth = x.depth PROVE FALSE
      <4>1. f \in journal /\ SameSource(x, f)
        BY <3>3 DEF EntriesOf, SameSource, SameKey, EntryId
      <4> QED BY <2>3, <4>1
    <3>4. e.depth + 1 < Cardinality(EntriesOf(x.key)) =>
            \E f \in EntriesOf(x.key) : f.depth = e.depth + 1
      BY <2>1 DEF Numbered
    <3> QED BY <2>1, <3>1, <3>2, <3>3, <3>4
  <2> QED BY <2>1, <2>2, <2>4, <2>5, <2>6, NumberedNext
<1>3. \/ journal' = journal
      \/ \E m \in Movement : Books(m)
      \/ \E e \in journal : Reverses(e)
  BY TableStep, Apart, Stutter DEF IInv, Next, TablesStay, StoresKnown
<1> QED BY <1>0, <1>1, <1>2, <1>3

\* The lines of an entry: one line with zeros when both accounts are the same,
\* a debit of one account and a credit of the other otherwise.
LEMMA SidesForm ==
  ASSUME NEW t \in Type, NEW n \in Nat
  PROVE  \/ /\ Accounts[t][1] = Accounts[t][2]
            /\ \E a : Sides(t, n) = {[account |-> a, debit |-> 0, credit |-> 0]}
         \/ /\ Accounts[t][1] # Accounts[t][2]
            /\ Sides(t, n) = IF n % 2 = 0
                 THEN {[account |-> Accounts[t][1], debit |-> 1, credit |-> 0],
                       [account |-> Accounts[t][2], debit |-> 0, credit |-> 1]}
                 ELSE {[account |-> Accounts[t][1], debit |-> 0, credit |-> 1],
                       [account |-> Accounts[t][2], debit |-> 1, credit |-> 0]}
<1> DEFINE dr == Accounts[t][1]
           cr == Accounts[t][2]
           B == build_unit_movement_lines(t)
<1>1. B = IF dr = cr
            THEN {[account |-> dr, debit |-> 0, credit |-> 0]}
            ELSE {[account |-> dr, debit |-> 1, credit |-> 0],
                  [account |-> cr, debit |-> 0, credit |-> 1]}
  BY DEF build_unit_movement_lines
<1>2. Sides(t, n) = IF n % 2 = 0 THEN B ELSE ReversedLines(B)
  BY DEF Sides
<1> HIDE DEF dr, cr, B
<1>3. CASE dr = cr
  <2>1. B = {[account |-> dr, debit |-> 0, credit |-> 0]}
    BY <1>1, <1>3
  <2>2. ReversedLines(B) = {[account |-> dr, debit |-> 0, credit |-> 0]}
    BY <2>1 DEF ReversedLines
  <2> QED BY <1>2, <1>3, <2>1, <2>2 DEF dr, cr
<1>4. CASE dr # cr
  <2>1. B = {[account |-> dr, debit |-> 1, credit |-> 0],
             [account |-> cr, debit |-> 0, credit |-> 1]}
    BY <1>1, <1>4
  <2>2. ReversedLines(B) = {[account |-> dr, debit |-> 0, credit |-> 1],
                            [account |-> cr, debit |-> 1, credit |-> 0]}
    BY <2>1 DEF ReversedLines
  <2> QED BY <1>2, <1>4, <2>1, <2>2 DEF dr, cr
<1> QED BY <1>3, <1>4

\* Debit equals credit in the lines of every depth.
LEMMA SidesBalance ==
  ASSUME NEW t \in Type, NEW n \in Nat
  PROVE  Cardinality({l \in Sides(t, n) : l.debit > 0})
           = Cardinality({l \in Sides(t, n) : l.credit > 0})
<1> DEFINE L == Sides(t, n)
           dr == Accounts[t][1]
           cr == Accounts[t][2]
<1> HIDE DEF L, dr, cr
<1>1. CASE \E a : L = {[account |-> a, debit |-> 0, credit |-> 0]}
  <2>1. {l \in L : l.debit > 0} = {} /\ {l \in L : l.credit > 0} = {}
    BY <1>1
  <2> QED BY <2>1 DEF L
<1>2. ASSUME NEW x, NEW y, L = {x, y}, x.debit = 1, x.credit = 0, y.debit = 0, y.credit = 1
      PROVE  Cardinality({l \in L : l.debit > 0}) = Cardinality({l \in L : l.credit > 0})
  <2>1. {l \in L : l.debit > 0} = {x} /\ {l \in L : l.credit > 0} = {y}
    BY <1>2
  <2> QED BY <2>1, FS_Singleton
<1>3. \/ \E a : L = {[account |-> a, debit |-> 0, credit |-> 0]}
      \/ L = IF n % 2 = 0
               THEN {[account |-> dr, debit |-> 1, credit |-> 0],
                     [account |-> cr, debit |-> 0, credit |-> 1]}
               ELSE {[account |-> dr, debit |-> 0, credit |-> 1],
                     [account |-> cr, debit |-> 1, credit |-> 0]}
  BY SidesForm DEF L, dr, cr
<1>4. CASE L = {[account |-> dr, debit |-> 1, credit |-> 0],
                [account |-> cr, debit |-> 0, credit |-> 1]}
  <2>1. PICK x : x = [account |-> dr, debit |-> 1, credit |-> 0]
    OBVIOUS
  <2>2. PICK y : y = [account |-> cr, debit |-> 0, credit |-> 1]
    OBVIOUS
  <2>3. L = {x, y} /\ x.debit = 1 /\ x.credit = 0 /\ y.debit = 0 /\ y.credit = 1
    BY <1>4, <2>1, <2>2
  <2> QED BY <1>2, <2>3 DEF L
<1>5. CASE L = {[account |-> dr, debit |-> 0, credit |-> 1],
                [account |-> cr, debit |-> 1, credit |-> 0]}
  <2>1. PICK x : x = [account |-> cr, debit |-> 1, credit |-> 0]
    OBVIOUS
  <2>2. PICK y : y = [account |-> dr, debit |-> 0, credit |-> 1]
    OBVIOUS
  <2>3. L = {x, y} /\ x.debit = 1 /\ x.credit = 0 /\ y.debit = 0 /\ y.credit = 1
    BY <1>5, <2>1, <2>2
  <2> QED BY <1>2, <2>3 DEF L
<1> QED BY <1>1, <1>3, <1>4, <1>5

\* A debit of account b and a credit of account d.
LEMMA TwoLines ==
  ASSUME NEW L, NEW a, NEW b, NEW d,
         L = {[account |-> b, debit |-> 1, credit |-> 0], [account |-> d, debit |-> 0, credit |-> 1]}
  PROVE  /\ (\E l \in L : l.account = a /\ l.debit > 0) <=> a = b
         /\ (\E l \in L : l.account = a /\ l.credit > 0) <=> a = d
<1>1. PICK x : x = [account |-> b, debit |-> 1, credit |-> 0]
  OBVIOUS
<1>2. PICK y : y = [account |-> d, debit |-> 0, credit |-> 1]
  OBVIOUS
<1>3. /\ L = {x, y} /\ x.account = b /\ y.account = d
      /\ x.debit = 1 /\ x.credit = 0 /\ y.debit = 0 /\ y.credit = 1
  BY <1>1, <1>2
<1> QED BY <1>3

\* The account an entry debits and the one it credits, from its depth.
LEMMA SidesAccounts ==
  ASSUME Numbered, journal \subseteq Entry, NEW k \in Key, NEW e \in EntriesOf(k), NEW a
  PROVE  /\ Accounts[k.type][1] = Accounts[k.type][2] =>
              Debits(e, a) = {} /\ Credits(e, a) = {}
         /\ Accounts[k.type][1] # Accounts[k.type][2] =>
              /\ Debits(e, a) # {} <=>
                   \/ a = Accounts[k.type][1] /\ e.depth % 2 = 0
                   \/ a = Accounts[k.type][2] /\ e.depth % 2 = 1
              /\ Credits(e, a) # {} <=>
                   \/ a = Accounts[k.type][1] /\ e.depth % 2 = 1
                   \/ a = Accounts[k.type][2] /\ e.depth % 2 = 0
<1> DEFINE t == k.type
           n == e.depth
           L == e.lines
           dr == Accounts[t][1]
           cr == Accounts[t][2]
<1>1. t \in Type /\ n \in Nat /\ L = Sides(t, n)
  BY BoundAssumption DEF Numbered, EntriesOf, Entry, Key
<1>2. n % 2 = 0 \/ n % 2 = 1
  BY <1>1
<1> HIDE DEF t, n, L, dr, cr
<1>3. /\ dr = cr => \E b : L = {[account |-> b, debit |-> 0, credit |-> 0]}
      /\ dr # cr => L = IF n % 2 = 0
                          THEN {[account |-> dr, debit |-> 1, credit |-> 0],
                                [account |-> cr, debit |-> 0, credit |-> 1]}
                          ELSE {[account |-> dr, debit |-> 0, credit |-> 1],
                                [account |-> cr, debit |-> 1, credit |-> 0]}
  BY <1>1, SidesForm DEF dr, cr
<1>4. Debits(e, a) = {l \in L : l.account = a /\ l.debit > 0}
      /\ Credits(e, a) = {l \in L : l.account = a /\ l.credit > 0}
  BY DEF Debits, Credits, L
<1>d. /\ Debits(e, a) # {} <=> \E l \in L : l.account = a /\ l.debit > 0
      /\ Credits(e, a) # {} <=> \E l \in L : l.account = a /\ l.credit > 0
  BY <1>4
<1>5. dr = cr => Debits(e, a) = {} /\ Credits(e, a) = {}
  BY <1>3, <1>4
<1>6. ASSUME dr # cr, n % 2 = 0
      PROVE  (Debits(e, a) # {} <=> a = dr) /\ (Credits(e, a) # {} <=> a = cr)
  <2>1. L = {[account |-> dr, debit |-> 1, credit |-> 0],
             [account |-> cr, debit |-> 0, credit |-> 1]}
    BY <1>3, <1>6
  <2>2. /\ (\E l \in L : l.account = a /\ l.debit > 0) <=> a = dr
        /\ (\E l \in L : l.account = a /\ l.credit > 0) <=> a = cr
    BY <2>1, TwoLines
  <2> QED BY <1>d, <2>2
<1>7. ASSUME dr # cr, n % 2 = 1
      PROVE  (Debits(e, a) # {} <=> a = cr) /\ (Credits(e, a) # {} <=> a = dr)
  <2>1. L = {[account |-> dr, debit |-> 0, credit |-> 1],
             [account |-> cr, debit |-> 1, credit |-> 0]}
    BY <1>3, <1>7
  <2>2. L = {[account |-> cr, debit |-> 1, credit |-> 0],
             [account |-> dr, debit |-> 0, credit |-> 1]}
    BY <2>1
  <2>3. /\ (\E l \in L : l.account = a /\ l.debit > 0) <=> a = cr
        /\ (\E l \in L : l.account = a /\ l.credit > 0) <=> a = dr
    BY <2>2, TwoLines
  <2> QED BY <1>d, <2>3
<1>8. dr # cr =>
        /\ Debits(e, a) # {} <=> (a = dr /\ n % 2 = 0) \/ (a = cr /\ n % 2 = 1)
        /\ Credits(e, a) # {} <=> (a = dr /\ n % 2 = 1) \/ (a = cr /\ n % 2 = 0)
  BY <1>2, <1>6, <1>7
<1> QED BY <1>5, <1>8 DEF t, n, dr, cr

\* Of an even number of entries of a key, half debit and half credit the
\* accounts of the movement.
LEMMA NumberedCancels == IInv /\ Numbered => ReversalCancels
<1> SUFFICES ASSUME IInv, Numbered PROVE ReversalCancels
  OBVIOUS
<1>t. journal \subseteq Entry
  BY DEF IInv, TypeOK
<1>1. ASSUME NEW e \in journal
      PROVE  Cardinality({l \in e.lines : l.debit > 0}) = Cardinality({l \in e.lines : l.credit > 0})
  <2>1. e.depth \in Nat /\ e.key.type \in Type /\ e.lines = Sides(e.key.type, e.depth)
    BY <1>t, BoundAssumption DEF Numbered, Entry, Key
  <2> QED BY <2>1, SidesBalance
<1>2. ASSUME NEW k \in Key, Cardinality(EntriesOf(k)) % 2 = 0, NEW a
      PROVE  Cardinality({e \in EntriesOf(k) : Debits(e, a) # {}})
               = Cardinality({e \in EntriesOf(k) : Credits(e, a) # {}})
  <2> DEFINE D == {e \in EntriesOf(k) : Debits(e, a) # {}}
             C == {e \in EntriesOf(k) : Credits(e, a) # {}}
             dr == Accounts[k.type][1]
             cr == Accounts[k.type][2]
  <2>1. Cardinality(Even(k)) = Cardinality(Odd(k))
    <3>1. Cardinality(Even(k)) = Cardinality(Odd(k)) + 0
      BY <1>2 DEF Numbered
    <3>2. IsFiniteSet(EntriesOf(k)) /\ Odd(k) \in SUBSET EntriesOf(k)
      BY DEF Numbered, Odd
    <3>3. Cardinality(Odd(k)) \in Nat
      BY <3>2, FS_Subset, FS_CardinalityType
    <3> QED BY <3>1, <3>3
  <2>2. ASSUME dr = cr PROVE D = {} /\ C = {}
    BY <1>t, <2>2, SidesAccounts
  <2>3. ASSUME dr # cr, a = dr PROVE D = Even(k) /\ C = Odd(k)
    BY <1>t, <2>3, SidesAccounts DEF Even, Odd
  <2>4. ASSUME dr # cr, a = cr PROVE D = Odd(k) /\ C = Even(k)
    BY <1>t, <2>4, SidesAccounts DEF Even, Odd
  <2>5. ASSUME dr # cr, a # dr, a # cr PROVE D = {} /\ C = {}
    BY <1>t, <2>5, SidesAccounts
  <2> HIDE DEF D, C, dr, cr
  <2>6. Cardinality(D) = Cardinality(C)
    BY <2>1, <2>2, <2>3, <2>4, <2>5
  <2> QED BY <2>6 DEF D, C
<1> QED BY <1>1, <1>2 DEF ReversalCancels

\* Debit equals credit in every entry, and a movement reversed an odd number of
\* times has left every account where it was.
THEOREM ReversalsCancel == Spec => []ReversalCancels
<1>1. Init => Numbered
  <2> SUFFICES ASSUME Init PROVE Numbered
    OBVIOUS
  <2>1. \A k \in Key : EntriesOf(k) = {} /\ Even(k) = {} /\ Odd(k) = {}
    BY DEF Init, EntriesOf, Even, Odd
  <2>2. 0 % 2 = 0 /\ 0 + 0 = 0
    OBVIOUS
  <2>3. Cardinality({}) = 0 /\ IsFiniteSet({})
    BY FS_EmptySet
  <2>4. journal = {}
    BY DEF Init
  <2>5. ASSUME NEW k \in Key
        PROVE  /\ IsFiniteSet(EntriesOf(k))
               /\ \A e \in EntriesOf(k) : e.depth < Cardinality(EntriesOf(k))
               /\ \A j \in Nat : j < Cardinality(EntriesOf(k)) =>
                    \E e \in EntriesOf(k) : e.depth = j
               /\ Cardinality(Even(k)) =
                    Cardinality(Odd(k)) + (IF Cardinality(EntriesOf(k)) % 2 = 0 THEN 0 ELSE 1)
    <3>1. /\ Cardinality(EntriesOf(k)) = 0 /\ Cardinality(Even(k)) = 0 /\ Cardinality(Odd(k)) = 0
          /\ EntriesOf(k) = {} /\ IsFiniteSet(EntriesOf(k))
      BY <2>1, <2>3, Zenon
    <3> QED BY <2>2, <3>1
  <2> QED BY <2>4, <2>5 DEF Numbered
<1> QED BY <1>1, NumberedStep, NumberedCancels, LedgerInvariant, PTL DEF Spec
=============================================================================
