-------------------------- MODULE DeadLetterReplay --------------------------
(***************************************************************************)
(* Replaying dead-letter messages (jobs/replay.py): commands of the CLI and*)
(* of the admin endpoint rotate the list job:dead with LPOP and RPUSH while*)
(* other commands do the same and workers keep adding to the list.         *)
(*                                                                         *)
(* One step is what a command does up to its next await on Redis. The read-*)
(* only modes and the summary write nothing and are left out.              *)
(***************************************************************************)
EXTENDS Naturals, Sequences, FiniteSets

CONSTANTS
  Id,         \* messages, told apart by their job_id
  Command,    \* invocations of replay_dead_letter_messages
  Mode,       \* "replay" or "discard", of each command
  Matching,   \* the messages each command's job_name / search filters select
  Limit,      \* its limit, 0 for none
  MaxErrors,  \* bound: faults in one behaviour
  Faults,     \* what may go wrong in this instance
  NoId        \* an empty hand

FaultKind ==
  {"refused",     \* the LPUSH of a replay raises, or answers 0: not applied
   "lost_reply",  \* it raises after it was applied
   "restore",     \* the RPUSH that gives the original back raises as well
   "outage",      \* LLEN, LPOP or the RPUSH of a rotation raises
   "killed"}      \* the command is cancelled, or its process dies, at a call

ASSUME IdAssumption == NoId \notin Id
ASSUME ModeAssumption == Mode \in [Command -> {"replay", "discard"}]
ASSUME MatchingAssumption == Matching \in [Command -> SUBSET Id]
ASSUME LimitAssumption == Limit \in [Command -> Nat]
ASSUME ErrorsAssumption == MaxErrors \in Nat
ASSUME FaultsAssumption == Faults \subseteq FaultKind

VARIABLES
  dead,     \* the list job:dead, its left end first
  queued,   \* how many copies of each message job:queue and the workers hold
  pc,       \* where each command is
  left,     \* turns left of its for loop
  total,    \* result.total: matching messages met so far
  hand,     \* the message it popped and has not pushed yet
  gone,     \* history: where each message ended, if it did
  entry,    \* history: job:dead when the command measured it
  calm,     \* history: nobody else, and no failure, touched job:dead since
  spoiled,  \* history: messages a failing call lost or doubled
  errors    \* faults so far

redisVars == <<dead, queued>>
commandVars == <<pc, left, total, hand>>
histVars == <<gone, entry, calm, spoiled, errors>>
vars == <<redisVars, commandVars, histVars>>

PC == {"new", "loop", "rotate", "replay", "restore", "done", "raised"}
Running == {"loop", "rotate", "replay", "restore"}

Init ==
  /\ dead = <<>>
  /\ queued = [i \in Id |-> 1]
  /\ pc = [c \in Command |-> "new"]
  /\ left = [c \in Command |-> 0]
  /\ total = [c \in Command |-> 0]
  /\ hand = [c \in Command |-> NoId]
  /\ gone = [i \in Id |-> {}]
  /\ entry = [c \in Command |-> <<>>]
  /\ calm = [c \in Command |-> FALSE]
  /\ spoiled = {}
  /\ errors = 0

-----------------------------------------------------------------------------
(* Redis calls. *)

LpushDead(i) == dead' = <<i>> \o dead
RpushDead(i) == dead' = Append(dead, i)
LpopDead == dead # <<>> /\ dead' = Tail(dead)
LpushQueue(i) == queued' = [queued EXCEPT ![i] = @ + 1]

Goto(c, label) == pc' = [pc EXCEPT ![c] = label]
Take(c, i) == hand' = [hand EXCEPT ![c] = i]

\* A failing call leaves no copy of i, or two.
Spoil(i) == spoiled' = spoiled \cup {i}

\* A change of job:dead disturbs the passes of every command but c.
Disturbs(c) == calm' = [d \in Command |-> d = c /\ calm[d]]

-----------------------------------------------------------------------------
(* Workers: one holding a queued copy settles it, or LPUSHes it on job:dead. *)

Settle(i) ==
  /\ queued[i] > 0
  /\ queued' = [queued EXCEPT ![i] = @ - 1]
  /\ gone' = [gone EXCEPT ![i] = @ \cup {"settled"}]
  /\ UNCHANGED <<dead, commandVars, entry, calm, spoiled, errors>>

Bury(i) ==
  /\ queued[i] > 0
  /\ queued' = [queued EXCEPT ![i] = @ - 1]
  /\ LpushDead(i)
  /\ calm' = [c \in Command |-> FALSE]
  /\ UNCHANGED <<commandVars, gone, entry, spoiled, errors>>

-----------------------------------------------------------------------------
(* Commands. *)

\* Mutant: one turn too many.
BeginPlusOne(c) ==
  /\ pc[c] = "new"
  /\ left' = [left EXCEPT ![c] = Len(dead) + 1]
  /\ entry' = [entry EXCEPT ![c] = dead]
  /\ calm' = [calm EXCEPT ![c] = TRUE]
  /\ Goto(c, "loop")
  /\ UNCHANGED <<redisVars, total, hand, gone, spoiled, errors>>

\* LLEN job:dead bounds the loop.
Begin(c) ==
  /\ pc[c] = "new"
  /\ left' = [left EXCEPT ![c] = Len(dead)]
  /\ entry' = [entry EXCEPT ![c] = dead]
  /\ calm' = [calm EXCEPT ![c] = TRUE]
  /\ Goto(c, "loop")
  /\ UNCHANGED <<redisVars, total, hand, gone, spoiled, errors>>

\* Mutant: until LPOP finds nothing, whatever the length on entry was.
FinishedWhenEmpty(c) ==
  \/ Limit[c] > 0 /\ total[c] >= Limit[c]
  \/ dead = <<>>

\* range(rotations) is used up, the limit is reached or LPOP finds nothing.
Finished(c) ==
  \/ left[c] = 0
  \/ Limit[c] > 0 /\ total[c] >= Limit[c]
  \/ dead = <<>>

Finish(c) ==
  /\ pc[c] = "loop"
  /\ Finished(c)
  /\ Goto(c, "done")
  /\ UNCHANGED <<redisVars, left, total, hand, histVars>>

\* LPOP job:dead and the decision what to do with the message.
Turn(c) ==
  /\ pc[c] = "loop"
  /\ ~ Finished(c)
  /\ left' = [left EXCEPT ![c] = @ - 1]
  /\ LpopDead
  /\ Disturbs(c)
  /\ UNCHANGED <<queued, entry, spoiled, errors>>

\* Mutant: a rotation that is not counted.
RotateUnbounded(c) ==
  /\ pc[c] = "loop"
  /\ dead # <<>>
  /\ Head(dead) \notin Matching[c]
  /\ LpopDead
  /\ Disturbs(c)
  /\ Take(c, Head(dead))
  /\ Goto(c, "rotate")
  /\ UNCHANGED <<queued, left, total, gone, entry, spoiled, errors>>

PopOther(c) ==
  /\ Turn(c)
  /\ Head(dead) \notin Matching[c]
  /\ Take(c, Head(dead))
  /\ Goto(c, "rotate")
  /\ UNCHANGED <<total, gone>>

\* Mutant: the filters are not applied before the discard.
PopDiscardAny(c) ==
  /\ Turn(c)
  /\ Mode[c] = "discard"
  /\ total' = [total EXCEPT ![c] = @ + 1]
  /\ gone' = [gone EXCEPT ![Head(dead)] = @ \cup {"discarded"}]
  /\ UNCHANGED <<pc, hand>>

PopDiscard(c) ==
  /\ Turn(c)
  /\ Head(dead) \in Matching[c]
  /\ Mode[c] = "discard"
  /\ total' = [total EXCEPT ![c] = @ + 1]
  /\ gone' = [gone EXCEPT ![Head(dead)] = @ \cup {"discarded"}]
  /\ UNCHANGED <<pc, hand>>

PopReplay(c) ==
  /\ Turn(c)
  /\ Head(dead) \in Matching[c]
  /\ Mode[c] = "replay"
  /\ total' = [total EXCEPT ![c] = @ + 1]
  /\ Take(c, Head(dead))
  /\ Goto(c, "replay")
  /\ UNCHANGED gone

\* A message that does not match goes to the tail.
Rotate(c) ==
  /\ pc[c] = "rotate"
  /\ RpushDead(hand[c])
  /\ Disturbs(c)
  /\ Take(c, NoId)
  /\ Goto(c, "loop")
  /\ UNCHANGED <<queued, left, total, gone, entry, spoiled, errors>>

\* A fresh copy goes to job:queue.
Replay(c) ==
  /\ pc[c] = "replay"
  /\ LpushQueue(hand[c])
  /\ Take(c, NoId)
  /\ Goto(c, "loop")
  /\ UNCHANGED <<dead, left, total, histVars>>

\* Its LPUSH raises: refused, or applied with the reply lost.
ReplayFails(c) ==
  /\ pc[c] = "replay"
  /\ errors < MaxErrors
  /\ \/ "refused" \in Faults /\ UNCHANGED <<queued, spoiled>>
     \/ "lost_reply" \in Faults /\ LpushQueue(hand[c]) /\ Spoil(hand[c])
  /\ Goto(c, "restore")
  /\ calm' = [calm EXCEPT ![c] = FALSE]
  /\ errors' = errors + 1
  /\ UNCHANGED <<dead, left, total, hand, gone, entry>>

\* Mutant: the except branch only counts the failure.
RestoreSkipped(c) ==
  /\ pc[c] = "restore"
  /\ Take(c, NoId)
  /\ Goto(c, "loop")
  /\ UNCHANGED <<redisVars, left, total, histVars>>

\* The original goes back to the tail of job:dead.
Restore(c) ==
  /\ pc[c] = "restore"
  /\ RpushDead(hand[c])
  /\ Disturbs(c)
  /\ Take(c, NoId)
  /\ Goto(c, "loop")
  /\ UNCHANGED <<queued, left, total, gone, entry, spoiled, errors>>

\* That RPUSH raises as well, which is suppressed.
RestoreFails(c) ==
  /\ "restore" \in Faults
  /\ pc[c] = "restore"
  /\ errors < MaxErrors
  /\ \/ UNCHANGED <<dead, calm>> /\ Spoil(hand[c])
     \/ RpushDead(hand[c]) /\ Disturbs(c) /\ UNCHANGED spoiled
  /\ Take(c, NoId)
  /\ Goto(c, "loop")
  /\ errors' = errors + 1
  /\ UNCHANGED <<queued, left, total, gone, entry>>

\* LLEN, LPOP or the RPUSH of a rotation raises through the command, or the
\* command is killed there.
Raised(c) ==
  /\ Faults \cap {"outage", "killed"} # {}
  /\ pc[c] \in {"new", "loop", "rotate"}
  /\ errors < MaxErrors
  /\ \/ pc[c] # "rotate" /\ UNCHANGED <<dead, calm, spoiled>>
     \/ pc[c] = "loop" /\ ~ Finished(c) /\ LpopDead /\ Disturbs(c) /\ Spoil(Head(dead))
     \/ pc[c] = "rotate" /\ UNCHANGED <<dead, calm>> /\ Spoil(hand[c])
     \/ pc[c] = "rotate" /\ RpushDead(hand[c]) /\ Disturbs(c) /\ UNCHANGED spoiled
  /\ Take(c, NoId)
  /\ Goto(c, "raised")
  /\ errors' = errors + 1
  /\ UNCHANGED <<queued, left, total, gone, entry>>

\* Killed at the LPUSH of a replay or the RPUSH that gives the original back:
\* no except branch runs, the message it holds is lost unless the push arrived.
Killed(c) ==
  /\ "killed" \in Faults
  /\ pc[c] \in {"replay", "restore"}
  /\ errors < MaxErrors
  /\ \/ UNCHANGED <<redisVars, calm>> /\ Spoil(hand[c])
     \/ pc[c] = "replay" /\ LpushQueue(hand[c]) /\ UNCHANGED <<dead, calm, spoiled>>
     \/ pc[c] = "restore" /\ RpushDead(hand[c]) /\ Disturbs(c) /\ UNCHANGED <<queued, spoiled>>
  /\ Take(c, NoId)
  /\ Goto(c, "raised")
  /\ errors' = errors + 1
  /\ UNCHANGED <<left, total, gone, entry>>

CommandStep(c) ==
  \/ Begin(c)
  \/ Finish(c)
  \/ PopOther(c)
  \/ PopDiscard(c)
  \/ PopReplay(c)
  \/ Rotate(c)
  \/ Replay(c)
  \/ ReplayFails(c)
  \/ Restore(c)
  \/ RestoreFails(c)
  \/ Raised(c)
  \/ Killed(c)

Next ==
  \/ \E i \in Id : Settle(i) \/ Bury(i)
  \/ \E c \in Command : CommandStep(c)

Spec == Init /\ [][Next]_vars

\* A Redis call answers or raises, so a command that was started goes on.
\* Nothing is assumed of the operator or of the workers.
FairSpec == Spec /\ \A c \in Command : WF_vars(pc[c] # "new" /\ CommandStep(c))

-----------------------------------------------------------------------------
(* Properties. *)

\* The keys, the locals of every command and the history have their types; a
\* command that is about to push has something in its hand.
TypeOK ==
  /\ dead \in Seq(Id)
  /\ queued \in [Id -> Nat]
  /\ pc \in [Command -> PC]
  /\ left \in [Command -> Nat]
  /\ total \in [Command -> Nat]
  /\ hand \in [Command -> Id \cup {NoId}]
  /\ gone \in [Id -> SUBSET {"settled", "discarded"}]
  /\ entry \in [Command -> Seq(Id)]
  /\ calm \in [Command -> BOOLEAN]
  /\ spoiled \subseteq Id
  /\ errors \in 0..MaxErrors
  /\ \A c \in Command : hand[c] # NoId <=> pc[c] \in Running \ {"loop"}

Places(i) == {k \in 1..Len(dead) : dead[k] = i}
Hands(i) == {c \in Command : hand[c] = i}
Copies(i) == queued[i] + Cardinality(Places(i)) + Cardinality(Hands(i))

\* "Two concurrent replayers can never process the same message" and "no data
\* loss": until a worker settles it or a command discards it, a message exists
\* exactly once in job:dead, job:queue or one command's hand, while commands and
\* workers rotate, replay and refill the list at the same time and a replay's
\* LPUSH is refused; and it does not come back afterwards. The exceptions are
\* the messages a lost reply doubled, or that were lost because a call failed
\* after LPOP or the command was killed between LPOP and its push.
ExactlyOnce ==
  \A i \in Id \ spoiled :
    Copies(i) = (IF gone[i] = {} THEN 1 ELSE 0) /\ Cardinality(gone[i]) <= 1

\* Positions among the first n of list s that a command selects, or does not.
Met(c, s, n) == {k \in 1..n : s[k] \in Matching[c]}
Others(c, s, n) == {k \in 1..n : s[k] \notin Matching[c]}

\* The member of S that has j - 1 smaller ones, as a set.
Nth(S, j) == {k \in S : Cardinality({p \in S : p <= k}) = j}

\* The messages among the first n that it does not select, in their order.
Kept(c, s, n) ==
  LET S == Others(c, s, n)
  IN  [j \in 1..Cardinality(S) |-> s[CHOOSE k \in Nth(S, j) : TRUE]]

\* What is left of list s when its first n messages have been visited.
Visited(c, s, n) == SubSeq(s, n + 1, Len(s)) \o Kept(c, s, n)

\* The positions at which its limit is reached.
Reached(c, s) == {n \in 1..Len(s) : Limit[c] > 0 /\ Cardinality(Met(c, s, n)) = Limit[c]}

\* Where a pass over s stops: at the limit-th matching message, or at the end.
Stops(c, s) ==
  IF Reached(c, s) = {} THEN Len(s)
  ELSE CHOOSE n \in Reached(c, s) : \A k \in Reached(c, s) : n <= k

\* A command that had job:dead to itself has taken out exactly the matching
\* messages up to its limit, visited every other one once, and kept their order.
PassResult ==
  \A c \in Command :
    pc[c] = "done" /\ calm[c] => dead = Visited(c, entry[c], Stops(c, entry[c]))

\* Every started command ends, even when each message it replays fails again
\* and comes back to the list before the next LPOP.
PassEnds == \A c \in Command : pc[c] \in Running ~> pc[c] \in {"done", "raised"}

PlaceOf(i) ==
  IF i \in spoiled THEN "unknown"
  ELSE IF Places(i) # {} \/ Hands(i) # {} THEN "dead"
  ELSE IF queued[i] > 0 THEN "queued"
  ELSE IF "discarded" \in gone[i] THEN "discarded"
  ELSE "settled"

Selected(mode) == UNION {Matching[c] : c \in {d \in Command : Mode[d] = mode}}

Store == INSTANCE DeadLetters
  WITH place <- [i \in Id |-> PlaceOf(i)],
       Replayable <- Selected("replay"), Discardable <- Selected("discard")

\* The rotating commands implement the abstract list: a message in a hand still
\* counts as dead, so LPOP, RPUSH and the failure path are stutters, and only a
\* command that selects a message moves it, to the queue or out of the system.
\* Where the message of a failing call is, is unknown; no other is affected.
Refinement == Store!Spec
=============================================================================
