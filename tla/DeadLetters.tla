----------------------------- MODULE DeadLetters ----------------------------
(***************************************************************************)
(* What the dead-letter list and its replay tool promise: a message is in  *)
(* one place at a time, and leaves the dead-letter list only when an       *)
(* operator's command that selects it replays or discards it. A call that  *)
(* raises may leave open where the message it was about is.                *)
(***************************************************************************)
CONSTANTS
  Id,           \* messages
  Replayable,   \* those selected by some replay command
  Discardable   \* those selected by some discard command

VARIABLE place

Place == {"queued", "dead", "settled", "discarded", "unknown"}

Move(i, from, to) ==
  /\ place[i] = from
  /\ place' = [place EXCEPT ![i] = to]

Init == place = [i \in Id |-> "queued"]

\* A worker takes a queued message and settles it, or gives it up.
Settle(i) == Move(i, "queued", "settled")
Bury(i) == Move(i, "queued", "dead")

\* A command takes it out of the dead-letter list.
Replay(i) == i \in Replayable /\ Move(i, "dead", "queued")
Discard(i) == i \in Discardable /\ Move(i, "dead", "discarded")

\* A Redis call about a dead message raises: it is gone, back or doubled.
Spoil(i) == Move(i, "dead", "unknown")

Next == \E i \in Id : Settle(i) \/ Bury(i) \/ Replay(i) \/ Discard(i) \/ Spoil(i)

Spec == Init /\ [][Next]_place
=============================================================================
