------------------------- MODULE MCDeadLetterReplay -------------------------
(* Instances of DeadLetterReplay for TLC: a replay command without a limit and *)
(* a discard command that is limited to one message; m2 matches both filters,  *)
(* m3 the second only, m1 neither.                                             *)
EXTENDS DeadLetterReplay

CONSTANTS m1, m2, m3, again, drop

MCMode == [c \in Command |-> IF c = drop THEN "discard" ELSE "replay"]
MCMatching == [c \in Command |-> IF c = drop THEN {m2, m3} ELSE {m2}]
MCLimit == [c \in Command |-> IF c = drop THEN 1 ELSE 0]

\* Kept is what filtering the first n messages of a list gives.
ASSUME KeptFilters ==
  \A c \in Command, m \in 0..4 : \A s \in [1..m -> Id], n \in 0..m :
    Kept(c, s, n) = SelectSeq(SubSeq(s, 1, n), LAMBDA i : i \notin Matching[c])
=============================================================================
