----------------------- MODULE DeadLetterReplayProofs -----------------------
(***************************************************************************)
(* Proofs about the replay of dead-letter messages, for every set of       *)
(* messages and commands, every filter, limit and number of failing calls. *)
(***************************************************************************)
EXTENDS DeadLetterReplay, Integers, FiniteSetTheorems, FunctionTheorems, SequenceTheorems, TLAPS

-----------------------------------------------------------------------------
(* Positions in a list. *)

At(s, i) == {k \in 1..Len(s) : s[k] = i}

LEMMA AtFinite ==
  ASSUME NEW S, NEW s \in Seq(S), NEW i
  PROVE  IsFiniteSet(At(s, i)) /\ Cardinality(At(s, i)) \in Nat
<1>1. IsFiniteSet(1..Len(s)) /\ At(s, i) \in SUBSET (1..Len(s))
  BY FS_Interval DEF At
<1>2. IsFiniteSet(At(s, i))
  BY <1>1, FS_Subset
<1> QED BY <1>2, FS_CardinalityType

\* RPUSH
LEMMA AtAppend ==
  ASSUME NEW S, NEW s \in Seq(S), NEW j \in S, NEW i
  PROVE  Cardinality(At(Append(s, j), i)) = Cardinality(At(s, i)) + (IF i = j THEN 1 ELSE 0)
<1>0. IsFiniteSet(At(s, i)) /\ Cardinality(At(s, i)) \in Nat
  BY AtFinite
<1>1. /\ Len(Append(s, j)) = Len(s) + 1 /\ Append(s, j)[Len(s) + 1] = j /\ Len(s) \in Nat
      /\ \A k \in 1..Len(s) : Append(s, j)[k] = s[k]
  OBVIOUS
<1>2. CASE i = j
  <2>1. At(Append(s, j), i) = At(s, i) \cup {Len(s) + 1} /\ Len(s) + 1 \notin At(s, i)
    BY <1>1, <1>2 DEF At
  <2> QED BY <1>0, <1>2, <2>1, FS_AddElement
<1>3. CASE i # j
  <2>1. At(Append(s, j), i) = At(s, i)
    BY <1>1, <1>3 DEF At
  <2> QED BY <1>0, <1>3, <2>1
<1> QED BY <1>2, <1>3

\* LPOP: what was at k is at k - 1
LEMMA AtTail ==
  ASSUME NEW S, NEW s \in Seq(S), s # <<>>, NEW i
  PROVE  Cardinality(At(s, i)) = Cardinality(At(Tail(s), i)) + (IF i = Head(s) THEN 1 ELSE 0)
<1>0. /\ IsFiniteSet(At(s, i)) /\ Cardinality(At(s, i)) \in Nat
  BY AtFinite
<1>1. /\ Tail(s) \in Seq(S) /\ Len(s) \in Nat \ {0} /\ Len(Tail(s)) = Len(s) - 1 /\ Head(s) = s[1]
      /\ \A k \in 1..Len(Tail(s)) : Tail(s)[k] = s[k + 1]
  OBVIOUS
<1>a. Cardinality(At(Tail(s), i)) \in Nat
  BY <1>1, AtFinite
<1> DEFINE A == At(s, i) \ {1}
           B == At(Tail(s), i)
           f == [k \in A |-> k - 1]
<1>2. \A k \in A : k - 1 \in B
  BY <1>1 DEF At
<1>3. \A k \in B : k + 1 \in A /\ k \in Nat
  BY <1>1 DEF At
<1>4. A \subseteq Nat
  BY DEF At
<1>5. f \in Bijection(A, B)
  <2> HIDE DEF A, B
  <2>1. f \in [A -> B]
    BY <1>2
  <2>2. \A a, b \in A : f[a] = f[b] => a = b
    BY <1>4
  <2>3. \A b \in B : \E a \in A : f[a] = b
    <3> SUFFICES ASSUME NEW b \in B PROVE \E a \in A : f[a] = b
      OBVIOUS
    <3>1. b + 1 \in A /\ f[b + 1] = b
      BY <1>3
    <3> QED BY <3>1
  <2> HIDE DEF f
  <2> QED BY <2>1, <2>2, <2>3, Fun_IsBij
<1>6. ExistsBijection(A, B)
  BY <1>5 DEF ExistsBijection
<1>7. /\ IsFiniteSet(A)
      /\ Cardinality(A) = IF 1 \in At(s, i) THEN Cardinality(At(s, i)) - 1 ELSE Cardinality(At(s, i))
  BY <1>0, FS_RemoveElement
<1>8. Cardinality(B) = Cardinality(A)
  BY <1>6, <1>7, FS_Bijection
<1>9. 1 \in At(s, i) <=> i = Head(s)
  BY <1>1 DEF At
<1> QED BY <1>0, <1>a, <1>7, <1>8, <1>9

\* LPUSH
LEMMA AtCons ==
  ASSUME NEW S, NEW s \in Seq(S), NEW j \in S, NEW i
  PROVE  Cardinality(At(<<j>> \o s, i)) = Cardinality(At(s, i)) + (IF i = j THEN 1 ELSE 0)
<1> DEFINE t == <<j>> \o s
<1>1. t \in Seq(S) /\ t # <<>> /\ Head(t) = j /\ Tail(t) \in Seq(S)
  OBVIOUS
<1>2. Len(Tail(t)) = Len(s) /\ \A k \in 1..Len(s) : Tail(t)[k] = s[k]
  OBVIOUS
<1>3. At(Tail(t), i) = At(s, i)
  BY <1>2 DEF At
<1> HIDE DEF t
<1> QED BY <1>1, <1>3, AtTail DEF t

-----------------------------------------------------------------------------
(* Types. *)

\* A command is about to push exactly when it has a message in its hand.
Armed == \A c \in Command : hand[c] # NoId <=> pc[c] \in Running \ {"loop"}

\* The first message of the list.
LEMMA HeadIn ==
  ASSUME TypeOK, dead # <<>>
  PROVE  Head(dead) \in Id /\ Tail(dead) \in Seq(Id)
BY DEF TypeOK

\* One command's label and hand change together.
LEMMA ArmedStep ==
  ASSUME TypeOK, NEW c \in Command, NEW label \in PC, NEW i \in Id \cup {NoId},
         Goto(c, label), Take(c, i), i # NoId <=> label \in Running \ {"loop"}
  PROVE  /\ pc' \in [Command -> PC] /\ hand' \in [Command -> Id \cup {NoId}]
         /\ Armed'
<1>1. pc \in [Command -> PC] /\ hand \in [Command -> Id \cup {NoId}] /\ Armed
  BY DEF TypeOK, Armed
<1>2. /\ pc'[c] = label /\ hand'[c] = i
      /\ \A d \in Command \ {c} : pc'[d] = pc[d] /\ hand'[d] = hand[d]
      /\ pc' \in [Command -> PC] /\ hand' \in [Command -> Id \cup {NoId}]
  BY <1>1 DEF Goto, Take
<1> QED BY <1>1, <1>2 DEF Armed

\* The rest of the state.
OtherType ==
  /\ dead \in Seq(Id)
  /\ queued \in [Id -> Nat]
  /\ left \in [Command -> Nat]
  /\ total \in [Command -> Nat]
  /\ gone \in [Id -> SUBSET {"settled", "discarded"}]
  /\ entry \in [Command -> Seq(Id)]
  /\ calm \in [Command -> BOOLEAN]
  /\ spoiled \subseteq Id
  /\ errors \in 0..MaxErrors

LEMMA TypeParts ==
  TypeOK <=> /\ OtherType /\ pc \in [Command -> PC] /\ hand \in [Command -> Id \cup {NoId}]
             /\ Armed
<1>1. TypeOK => OtherType
  BY DEF TypeOK, OtherType
<1>2. TypeOK => pc \in [Command -> PC] /\ hand \in [Command -> Id \cup {NoId}] /\ Armed
  BY DEF TypeOK, Armed
<1>3. /\ OtherType /\ pc \in [Command -> PC] /\ hand \in [Command -> Id \cup {NoId}] /\ Armed
      => TypeOK
  BY DEF TypeOK, OtherType, Armed
<1> QED BY <1>1, <1>2, <1>3

LEMMA TypePartsNext ==
  OtherType' /\ pc' \in [Command -> PC] /\ hand' \in [Command -> Id \cup {NoId}] /\ Armed' => TypeOK'
BY DEF TypeOK, OtherType, Armed

LEMMA CalmType ==
  ASSUME TypeOK, NEW c, Disturbs(c) PROVE calm' \in [Command -> BOOLEAN]
<1>1. \A d \in Command : (d = c /\ calm[d]) \in BOOLEAN
  OBVIOUS
<1> QED BY <1>1 DEF Disturbs

LEMMA TypeSettle == ASSUME TypeOK, NEW i \in Id, Settle(i) PROVE TypeOK'
<1>1. OtherType
  BY TypeParts
<1>2. queued' \in [Id -> Nat] /\ gone' \in [Id -> SUBSET {"settled", "discarded"}]
  BY <1>1 DEF OtherType, Settle
<1>3. UNCHANGED <<dead, pc, left, total, hand, entry, calm, spoiled, errors>>
  BY DEF Settle, commandVars
<1>4. OtherType'
  BY <1>1, <1>2, <1>3 DEF OtherType
<1> QED BY <1>3, <1>4, TypeParts, TypePartsNext DEF Armed

LEMMA TypeBury == ASSUME TypeOK, NEW i \in Id, Bury(i) PROVE TypeOK'
<1>1. OtherType
  BY TypeParts
<1>2. queued' \in [Id -> Nat] /\ dead' \in Seq(Id)
  BY <1>1 DEF OtherType, Bury, LpushDead
<1>3. calm' \in [Command -> BOOLEAN]
  BY DEF Bury
<1>4. UNCHANGED <<pc, left, total, hand, gone, entry, spoiled, errors>>
  BY DEF Bury, commandVars
<1>5. OtherType'
  BY <1>1, <1>2, <1>3, <1>4 DEF OtherType
<1> QED BY <1>4, <1>5, TypeParts, TypePartsNext DEF Armed

LEMMA TypeBegin == ASSUME TypeOK, NEW c \in Command, Begin(c) \/ Finish(c) PROVE TypeOK'
<1>1. OtherType /\ pc \in [Command -> PC] /\ hand \in [Command -> Id \cup {NoId}] /\ Armed
  BY TypeParts
<1>2. CASE Begin(c)
  <2>1. left' \in [Command -> Nat] /\ entry' \in [Command -> Seq(Id)] /\ calm' \in [Command -> BOOLEAN]
    BY <1>1, <1>2 DEF OtherType, Begin
  <2>2. UNCHANGED <<dead, queued, total, hand, gone, spoiled, errors>>
    BY <1>2 DEF Begin, redisVars
  <2>3. OtherType'
    BY <1>1, <2>1, <2>2 DEF OtherType
  <2>4. pc[c] = "new" /\ Goto(c, "loop")
    BY <1>2 DEF Begin
  <2>5. pc' \in [Command -> PC] /\ Armed'
    BY <1>1, <2>2, <2>4 DEF Goto, PC, Armed, Running
  <2> QED BY <1>1, <2>2, <2>3, <2>5, TypePartsNext
<1>3. CASE Finish(c)
  <2>1. UNCHANGED <<dead, queued, left, total, hand, gone, entry, calm, spoiled, errors>>
    BY <1>3 DEF Finish, redisVars, histVars
  <2>2. OtherType'
    BY <1>1, <2>1 DEF OtherType
  <2>3. pc[c] = "loop" /\ Goto(c, "done")
    BY <1>3 DEF Finish
  <2>4. pc' \in [Command -> PC] /\ Armed'
    BY <1>1, <2>1, <2>3 DEF Goto, PC, Armed, Running
  <2> QED BY <1>1, <2>1, <2>2, <2>4, TypePartsNext
<1> QED BY <1>2, <1>3

\* LPOP and the count of the turn
LEMMA TurnType ==
  ASSUME TypeOK, NEW c \in Command, Turn(c)
  PROVE  /\ dead # <<>> /\ Head(dead) \in Id /\ dead' = Tail(dead) /\ dead' \in Seq(Id)
         /\ left' \in [Command -> Nat] /\ calm' \in [Command -> BOOLEAN]
         /\ pc[c] = "loop" /\ hand[c] = NoId
         /\ UNCHANGED <<queued, entry, spoiled, errors>>
<1>1. /\ dead # <<>> /\ dead' = Tail(dead) /\ pc[c] = "loop" /\ left[c] # 0
      /\ left' = [left EXCEPT ![c] = left[c] - 1] /\ Disturbs(c)
      /\ UNCHANGED <<queued, entry, spoiled, errors>>
  BY DEF Turn, LpopDead, Finished, TypeOK
<1>2. left' \in [Command -> Nat]
  BY <1>1 DEF TypeOK
<1>3. hand[c] = NoId
  BY <1>1 DEF TypeOK
<1> QED BY <1>1, <1>2, <1>3, HeadIn, CalmType

LEMMA TypePop ==
  ASSUME TypeOK, NEW c \in Command, PopOther(c) \/ PopDiscard(c) \/ PopReplay(c)
  PROVE  TypeOK'
<1>1. OtherType /\ pc \in [Command -> PC] /\ hand \in [Command -> Id \cup {NoId}] /\ Armed
  BY TypeParts
<1>2. Turn(c)
  BY DEF PopOther, PopDiscard, PopReplay
<1>3. /\ Head(dead) \in Id /\ dead' \in Seq(Id)
      /\ left' \in [Command -> Nat] /\ calm' \in [Command -> BOOLEAN]
      /\ UNCHANGED <<queued, entry, spoiled, errors>>
  BY <1>2, TurnType
<1>4. total' \in [Command -> Nat]
  BY <1>1 DEF OtherType, PopOther, PopDiscard, PopReplay
<1>5. gone' \in [Id -> SUBSET {"settled", "discarded"}]
  <2>1. gone' = gone \/ gone' = [gone EXCEPT ![Head(dead)] = gone[Head(dead)] \cup {"discarded"}]
    BY DEF PopOther, PopDiscard, PopReplay
  <2>2. gone[Head(dead)] \cup {"discarded"} \in SUBSET {"settled", "discarded"}
    BY <1>1, <1>3 DEF OtherType
  <2> QED BY <1>1, <2>1, <2>2 DEF OtherType
<1>6. OtherType'
  BY <1>1, <1>3, <1>4, <1>5 DEF OtherType
<1>7. pc' \in [Command -> PC] /\ hand' \in [Command -> Id \cup {NoId}] /\ Armed'
  <2>1. CASE PopDiscard(c)
    BY <1>1, <2>1 DEF PopDiscard, Armed
  <2>2. CASE PopOther(c) \/ PopReplay(c)
    <3>1. PICK label \in {"rotate", "replay"} : Goto(c, label) /\ Take(c, Head(dead))
      BY <2>2 DEF PopOther, PopReplay
    <3>2. Head(dead) # NoId /\ label \in PC /\ label \in Running \ {"loop"}
      BY <1>3, <3>1, IdAssumption DEF PC, Running
    <3> QED BY <1>3, <3>1, <3>2, ArmedStep
  <2> QED BY <2>1, <2>2
<1> QED BY <1>6, <1>7, TypePartsNext

\* A command that pushes, or fails to, and lets go of the message.
LEMMA TypePush ==
  ASSUME TypeOK, NEW c \in Command, Rotate(c) \/ Replay(c) \/ Restore(c) \/ RestoreFails(c) \/ Raised(c)
         \/ Killed(c)
  PROVE  TypeOK'
<1>1. OtherType /\ pc \in [Command -> PC] /\ hand \in [Command -> Id \cup {NoId}] /\ Armed
  BY TypeParts
<1>2. pc[c] \in {"rotate", "replay", "restore"} => hand[c] \in Id
  BY <1>1 DEF Armed, Running
<1>3. dead' = dead \/ (dead # <<>> /\ dead' = Tail(dead)) \/ (hand[c] \in Id /\ dead' = Append(dead, hand[c]))
  BY <1>2 DEF Rotate, Replay, Restore, RestoreFails, Raised, Killed, RpushDead, LpopDead, redisVars
<1>4. dead' \in Seq(Id)
  <2>1. dead \in Seq(Id)
    BY <1>1 DEF OtherType
  <2>2. dead # <<>> => Tail(dead) \in Seq(Id)
    BY HeadIn
  <2> QED BY <1>3, <2>1, <2>2
<1>5. queued' = queued \/ (hand[c] \in Id /\ queued' = [queued EXCEPT ![hand[c]] = queued[hand[c]] + 1])
  BY <1>2 DEF Rotate, Replay, Restore, RestoreFails, Raised, Killed, LpushQueue, redisVars
<1>6. queued' \in [Id -> Nat]
  BY <1>1, <1>5 DEF OtherType
<1>7. calm' \in [Command -> BOOLEAN]
  <2>1. calm' = calm \/ Disturbs(c)
    BY DEF Rotate, Replay, Restore, RestoreFails, Raised, Killed, histVars
  <2> QED BY <1>1, <2>1, CalmType DEF OtherType
<1>8. spoiled' \subseteq Id
  <2>1. spoiled' = spoiled \/ (hand[c] \in Id /\ Spoil(hand[c])) \/ (dead # <<>> /\ Spoil(Head(dead)))
    BY <1>2 DEF Rotate, Replay, Restore, RestoreFails, Raised, Killed, histVars, LpopDead
  <2> QED BY <1>1, <2>1, HeadIn DEF OtherType, Spoil
<1>9. errors' \in 0..MaxErrors
  <2>1. errors' = errors \/ (errors < MaxErrors /\ errors' = errors + 1)
    BY DEF Rotate, Replay, Restore, RestoreFails, Raised, Killed, histVars
  <2> QED BY <1>1, <2>1, ErrorsAssumption DEF OtherType
<1>10. UNCHANGED <<left, total, gone, entry>>
  BY DEF Rotate, Replay, Restore, RestoreFails, Raised, Killed, histVars
<1>11. OtherType'
  BY <1>1, <1>4, <1>6, <1>7, <1>8, <1>9, <1>10 DEF OtherType
<1>12. pc' \in [Command -> PC] /\ hand' \in [Command -> Id \cup {NoId}] /\ Armed'
  <2>1. PICK label \in {"loop", "raised"} : Goto(c, label) /\ Take(c, NoId)
    BY DEF Rotate, Replay, Restore, RestoreFails, Raised, Killed
  <2>2. label \in PC /\ label \notin Running \ {"loop"}
    BY <2>1 DEF PC, Running
  <2> QED BY <2>1, <2>2, ArmedStep
<1> QED BY <1>11, <1>12, TypePartsNext

LEMMA TypeReplayFails == ASSUME TypeOK, NEW c \in Command, ReplayFails(c) PROVE TypeOK'
<1>1. OtherType /\ pc \in [Command -> PC] /\ hand \in [Command -> Id \cup {NoId}] /\ Armed
  BY TypeParts
<1>2. pc[c] = "replay" /\ hand[c] \in Id
  BY <1>1 DEF Armed, Running, ReplayFails
<1>3. queued' \in [Id -> Nat] /\ spoiled' \subseteq Id
  <2>1. /\ queued' = queued \/ queued' = [queued EXCEPT ![hand[c]] = queued[hand[c]] + 1]
        /\ spoiled' = spoiled \/ spoiled' = spoiled \cup {hand[c]}
    BY DEF ReplayFails, LpushQueue, Spoil
  <2>2. queued' \in [Id -> Nat]
    <3>1. queued \in [Id -> Nat] /\ queued[hand[c]] + 1 \in Nat
      BY <1>1, <1>2 DEF OtherType
    <3> QED BY <1>2, <2>1, <3>1
  <2>3. spoiled' \subseteq Id
    BY <1>1, <1>2, <2>1 DEF OtherType
  <2> QED BY <2>2, <2>3
<1>4. calm' \in [Command -> BOOLEAN]
  BY <1>1 DEF OtherType, ReplayFails
<1>5. errors' \in 0..MaxErrors
  BY <1>1, ErrorsAssumption DEF OtherType, ReplayFails
<1>6. UNCHANGED <<dead, left, total, hand, gone, entry>> /\ Goto(c, "restore")
  BY DEF ReplayFails
<1>7. OtherType'
  BY <1>1, <1>3, <1>4, <1>5, <1>6 DEF OtherType
<1>8. pc' \in [Command -> PC] /\ Armed'
  BY <1>1, <1>2, <1>6 DEF Goto, PC, Armed, Running
<1> QED BY <1>1, <1>6, <1>7, <1>8, TypePartsNext

LEMMA TypeInit == Init => TypeOK
<1>1. <<>> \in Seq(Id)
  OBVIOUS
<1> QED BY <1>1, ErrorsAssumption DEF Init, TypeOK, PC, Running

LEMMA TypeNext == TypeOK /\ [Next]_vars => TypeOK'
<1> SUFFICES ASSUME TypeOK, [Next]_vars PROVE TypeOK'
  OBVIOUS
<1>1. CASE UNCHANGED vars
  BY <1>1 DEF vars, redisVars, commandVars, histVars, TypeOK
<1>2. ASSUME NEW i \in Id, Settle(i) \/ Bury(i) PROVE TypeOK'
  BY <1>2, TypeSettle, TypeBury
<1>3. ASSUME NEW c \in Command, CommandStep(c) PROVE TypeOK'
  BY <1>3, TypeBegin, TypePop, TypePush, TypeReplayFails DEF CommandStep
<1> QED BY <1>1, <1>2, <1>3 DEF Next

\* TypeOK holds in every state: in particular a command that is about to push
\* has the message it popped in its hand, and only then.
THEOREM TypeCorrect == Spec => []TypeOK
<1>1. TypeOK /\ [Next]_vars => TypeOK'
  BY TypeNext
<1> QED BY <1>1, TypeInit, PTL DEF Spec

-----------------------------------------------------------------------------
(* How many copies of a message the list and the hands hold. *)

\* Only finitely many commands hold a message at a time.
HandsFinite == \A i \in Id : IsFiniteSet(Hands(i))

\* The message a replay is about is one its filters select.
Chosen ==
  \A c \in Command : pc[c] \in {"replay", "restore"} =>
    Mode[c] = "replay" /\ hand[c] \in Matching[c]

\* The copies of i in job:dead or on their way out of it or back.
Aboard(i) == Cardinality(Places(i)) + Cardinality(Hands(i))

LEMMA AboardNat ==
  ASSUME TypeOK, HandsFinite, NEW i \in Id
  PROVE  /\ Cardinality(Places(i)) \in Nat /\ Cardinality(Hands(i)) \in Nat /\ Aboard(i) \in Nat
         /\ Places(i) # {} \/ Hands(i) # {} <=> Aboard(i) > 0
         /\ queued[i] \in Nat /\ Copies(i) = queued[i] + Aboard(i)
<1>1. IsFiniteSet(Places(i)) /\ Cardinality(Places(i)) \in Nat
  <2>1. dead \in Seq(Id)
    BY DEF TypeOK
  <2> QED BY <2>1, AtFinite DEF At, Places
<1>2. IsFiniteSet(Hands(i)) /\ Cardinality(Hands(i)) \in Nat
  BY FS_CardinalityType DEF HandsFinite
<1>3. (Places(i) = {} <=> Cardinality(Places(i)) = 0) /\ (Hands(i) = {} <=> Cardinality(Hands(i)) = 0)
  BY <1>1, <1>2, FS_EmptySet
<1>4. queued[i] \in Nat
  BY DEF TypeOK
<1> QED BY <1>1, <1>2, <1>3, <1>4 DEF Aboard, Copies

\* LPOP, RPUSH and LPUSH, as the counts see them.
LEMMA PopCount ==
  ASSUME TypeOK, dead # <<>>, dead' = Tail(dead), NEW i \in Id
  PROVE  Cardinality(Places(i)) = Cardinality(Places(i))' + (IF i = Head(dead) THEN 1 ELSE 0)
<1>1. dead \in Seq(Id)
  BY DEF TypeOK
<1>2. Places(i) = At(dead, i) /\ Places(i)' = At(Tail(dead), i)
  BY DEF Places, At
<1> QED BY <1>1, <1>2, AtTail

LEMMA RpushCount ==
  ASSUME TypeOK, NEW j \in Id, dead' = Append(dead, j), NEW i \in Id
  PROVE  Cardinality(Places(i))' = Cardinality(Places(i)) + (IF i = j THEN 1 ELSE 0)
<1>1. dead \in Seq(Id)
  BY DEF TypeOK
<1>2. Places(i) = At(dead, i) /\ Places(i)' = At(Append(dead, j), i)
  BY DEF Places, At
<1> QED BY <1>1, <1>2, AtAppend

LEMMA LpushCount ==
  ASSUME TypeOK, NEW j \in Id, dead' = <<j>> \o dead, NEW i \in Id
  PROVE  Cardinality(Places(i))' = Cardinality(Places(i)) + (IF i = j THEN 1 ELSE 0)
<1>1. dead \in Seq(Id)
  BY DEF TypeOK
<1>2. Places(i) = At(dead, i) /\ Places(i)' = At(<<j>> \o dead, i)
  BY DEF Places, At
<1> QED BY <1>1, <1>2, AtCons

\* An empty hand takes a message.
LEMMA TakeCount ==
  ASSUME TypeOK, HandsFinite, NEW c \in Command, NEW j \in Id, Take(c, j), hand[c] = NoId
  PROVE  /\ HandsFinite'
         /\ \A i \in Id : Cardinality(Hands(i))' = Cardinality(Hands(i)) + (IF i = j THEN 1 ELSE 0)
<1>1. hand'[c] = j /\ \A d \in Command \ {c} : hand'[d] = hand[d]
  BY DEF TypeOK, Take
<1>2. ASSUME NEW i \in Id
      PROVE  /\ IsFiniteSet(Hands(i))'
             /\ Cardinality(Hands(i))' = Cardinality(Hands(i)) + (IF i = j THEN 1 ELSE 0)
  <2>0. IsFiniteSet(Hands(i)) /\ Cardinality(Hands(i)) \in Nat
    BY AboardNat DEF HandsFinite
  <2>1. CASE i = j
    <3>1. Hands(i)' = Hands(i) \cup {c} /\ c \notin Hands(i)
      BY <1>1, <2>1, IdAssumption DEF Hands
    <3> QED BY <2>0, <2>1, <3>1, FS_AddElement
  <2>2. CASE i # j
    <3>1. Hands(i)' = Hands(i)
      BY <1>1, <2>2, IdAssumption DEF Hands
    <3> QED BY <2>0, <2>2, <3>1
  <2> QED BY <2>1, <2>2
<1> QED BY <1>2 DEF HandsFinite

\* A full hand is emptied.
LEMMA DropCount ==
  ASSUME TypeOK, HandsFinite, NEW c \in Command, Take(c, NoId), hand[c] \in Id
  PROVE  /\ HandsFinite'
         /\ \A i \in Id : Cardinality(Hands(i)) = Cardinality(Hands(i))' + (IF i = hand[c] THEN 1 ELSE 0)
         /\ \A i \in Id : Cardinality(Hands(i))' \in Nat
<1>1. hand'[c] = NoId /\ \A d \in Command \ {c} : hand'[d] = hand[d]
  BY DEF TypeOK, Take
<1>2. ASSUME NEW i \in Id
      PROVE  /\ IsFiniteSet(Hands(i))' /\ Cardinality(Hands(i))' \in Nat
             /\ Cardinality(Hands(i)) = Cardinality(Hands(i))' + (IF i = hand[c] THEN 1 ELSE 0)
  <2>0. IsFiniteSet(Hands(i)) /\ Cardinality(Hands(i)) \in Nat
    BY AboardNat DEF HandsFinite
  <2>1. Hands(i)' = Hands(i) \ {c} /\ (c \in Hands(i) <=> i = hand[c])
    BY <1>1, IdAssumption DEF Hands
  <2>2. /\ IsFiniteSet(Hands(i))'
        /\ Cardinality(Hands(i))' = IF c \in Hands(i) THEN Cardinality(Hands(i)) - 1
                                                      ELSE Cardinality(Hands(i))
    BY <2>0, <2>1, FS_RemoveElement
  <2>3. Cardinality(Hands(i))' \in Nat
    BY <2>2, FS_CardinalityType
  <2> QED BY <2>0, <2>1, <2>2, <2>3
<1> QED BY <1>2 DEF HandsFinite

\* A hand that was empty and is: nothing happens.
LEMMA EmptyHand ==
  ASSUME TypeOK, NEW c \in Command, Take(c, NoId), hand[c] = NoId
  PROVE  hand' = hand
BY DEF TypeOK, Take

-----------------------------------------------------------------------------
(* The kinds of steps, as one message sees them. *)

StillSpoiled(i) == i \in spoiled' <=> i \in spoiled

Still(i) ==
  /\ queued'[i] = queued[i] /\ Aboard(i)' = Aboard(i) /\ gone'[i] = gone[i]
  /\ StillSpoiled(i)

Settles(i) ==
  /\ queued[i] > 0 /\ queued'[i] = queued[i] - 1 /\ Aboard(i)' = Aboard(i)
  /\ gone'[i] = gone[i] \cup {"settled"} /\ StillSpoiled(i)

Buries(i) ==
  /\ queued[i] > 0 /\ queued'[i] = queued[i] - 1 /\ Aboard(i)' = Aboard(i) + 1
  /\ gone'[i] = gone[i] /\ StillSpoiled(i)

Discards(i) ==
  /\ Aboard(i) > 0 /\ Aboard(i)' = Aboard(i) - 1 /\ queued'[i] = queued[i]
  /\ gone'[i] = gone[i] \cup {"discarded"} /\ StillSpoiled(i)
  /\ i \in Selected("discard")

Replays(i) ==
  /\ Aboard(i) > 0 /\ Aboard(i)' = Aboard(i) - 1 /\ queued'[i] = queued[i] + 1
  /\ gone'[i] = gone[i] /\ StillSpoiled(i)
  /\ i \in Selected("replay")

Spoils(i) == Aboard(i) > 0 /\ i \in spoiled'

OnlyOn(i) == \A j \in Id \ {i} : Still(j)

Kind ==
  \/ \A i \in Id : Still(i)
  \/ \E i \in Id : OnlyOn(i) /\ (Settles(i) \/ Buries(i) \/ Discards(i) \/ Replays(i) \/ Spoils(i))

Tracked == HandsFinite /\ Chosen

\* Nothing happens to any message.
LEMMA AllStill ==
  ASSUME UNCHANGED <<dead, queued, hand, gone, spoiled>>
  PROVE  /\ \A i \in Id : Still(i)
         /\ HandsFinite => HandsFinite'
<1>1. \A i \in Id : Places(i)' = Places(i) /\ Hands(i)' = Hands(i)
  BY DEF Places, Hands
<1>2. \A i \in Id : Aboard(i)' = Aboard(i)
  BY <1>1 DEF Aboard
<1> QED BY <1>1, <1>2 DEF Still, StillSpoiled, HandsFinite

\* What an empty hand or a hand that lets go means for Chosen.
LEMMA ChosenStep ==
  ASSUME TypeOK, Chosen, NEW c \in Command, NEW label, NEW i, Goto(c, label), Take(c, i),
         label \in {"replay", "restore"} => Mode[c] = "replay" /\ i \in Matching[c]
  PROVE  Chosen'
<1>1. /\ pc'[c] = label /\ hand'[c] = i
      /\ \A d \in Command \ {c} : pc'[d] = pc[d] /\ hand'[d] = hand[d]
  BY DEF TypeOK, Goto, Take
<1> QED BY <1>1 DEF Chosen

LEMMA KindWorker ==
  ASSUME TypeOK, Tracked, NEW i \in Id, Settle(i) \/ Bury(i)
  PROVE  Kind /\ Tracked'
<1>0. HandsFinite /\ Chosen /\ queued \in [Id -> Nat] /\ gone \in [Id -> SUBSET {"settled", "discarded"}]
  BY DEF Tracked, TypeOK
<1>1. /\ UNCHANGED <<pc, hand, spoiled>> /\ queued[i] > 0
      /\ queued' = [queued EXCEPT ![i] = queued[i] - 1]
  BY DEF Settle, Bury, commandVars
<1>2. \A j \in Id : Hands(j)' = Hands(j)
  BY <1>1 DEF Hands
<1>3. Tracked'
  BY <1>0, <1>1, <1>2 DEF Tracked, HandsFinite, Chosen
<1>4. queued'[i] = queued[i] - 1 /\ \A j \in Id \ {i} : queued'[j] = queued[j]
  BY <1>0, <1>1
<1>5. CASE Settle(i)
  <2>1. dead' = dead /\ gone' = [gone EXCEPT ![i] = gone[i] \cup {"settled"}]
    BY <1>5 DEF Settle
  <2>2. gone'[i] = gone[i] \cup {"settled"} /\ \A j \in Id \ {i} : gone'[j] = gone[j]
    BY <1>0, <2>1
  <2>3. \A j \in Id : Aboard(j)' = Aboard(j)
    BY <1>2, <2>1 DEF Aboard, Places
  <2>4. OnlyOn(i) /\ Settles(i)
    BY <1>1, <1>4, <2>2, <2>3 DEF OnlyOn, Still, Settles, StillSpoiled
  <2> QED BY <1>3, <2>4 DEF Kind
<1>6. CASE Bury(i)
  <2>1. dead' = <<i>> \o dead /\ gone' = gone
    BY <1>6 DEF Bury, LpushDead
  <2>2. ASSUME NEW j \in Id PROVE Aboard(j)' = Aboard(j) + (IF j = i THEN 1 ELSE 0)
    <3>1. Cardinality(Places(j))' = Cardinality(Places(j)) + (IF j = i THEN 1 ELSE 0)
      BY <2>1, LpushCount
    <3>2. Cardinality(Places(j)) \in Nat /\ Cardinality(Hands(j)) \in Nat
      BY <1>0, AboardNat
    <3> QED BY <1>2, <3>1, <3>2 DEF Aboard
  <2>3. \A j \in Id : Aboard(j) \in Nat
    BY <1>0, AboardNat
  <2>4. OnlyOn(i) /\ Buries(i)
    BY <1>1, <1>4, <2>1, <2>2, <2>3 DEF OnlyOn, Still, Buries, StillSpoiled
  <2> QED BY <1>3, <2>4 DEF Kind
<1> QED BY <1>5, <1>6

LEMMA KindBegin ==
  ASSUME TypeOK, Tracked, NEW c \in Command, Begin(c) \/ Finish(c)
  PROVE  Kind /\ Tracked'
<1>1. UNCHANGED <<dead, queued, hand, gone, spoiled>>
  BY DEF Begin, Finish, redisVars, histVars
<1>2. (\A i \in Id : Still(i)) /\ HandsFinite'
  BY <1>1, AllStill DEF Tracked
<1>3. \E label \in {"loop", "done"} : Goto(c, label)
  BY DEF Begin, Finish
<1>4. Chosen'
  BY <1>1, <1>3 DEF Tracked, Chosen, Goto, TypeOK
<1> QED BY <1>2, <1>4 DEF Kind, Tracked

\* the list gives a message to a hand
LEMMA KindPop ==
  ASSUME TypeOK, Tracked, NEW c \in Command, PopOther(c) \/ PopReplay(c)
  PROVE  Kind /\ Tracked'
<1>0. HandsFinite /\ Chosen
  BY DEF Tracked
<1>1. Turn(c) /\ Take(c, Head(dead)) /\ gone' = gone
  BY DEF PopOther, PopReplay
<1>2. /\ dead # <<>> /\ Head(dead) \in Id /\ dead' = Tail(dead) /\ hand[c] = NoId
      /\ UNCHANGED <<queued, spoiled>>
  BY <1>1, TurnType
<1>3. PICK h \in Id : h = Head(dead)
  BY <1>2
<1>4. /\ HandsFinite'
      /\ \A i \in Id : Cardinality(Hands(i))' = Cardinality(Hands(i)) + (IF i = h THEN 1 ELSE 0)
  BY <1>0, <1>1, <1>2, <1>3, TakeCount
<1>5. ASSUME NEW i \in Id PROVE Still(i)
  <2>1. Cardinality(Places(i)) = Cardinality(Places(i))' + (IF i = h THEN 1 ELSE 0)
    BY <1>2, <1>3, PopCount
  <2>2. Cardinality(Places(i)) \in Nat /\ Cardinality(Hands(i)) \in Nat
    BY <1>0, AboardNat
  <2>3. Cardinality(Places(i))' \in Nat
    <3>1. Tail(dead) \in Seq(Id)
      BY <1>2, HeadIn
    <3>2. Places(i)' = At(Tail(dead), i)
      BY <1>2 DEF Places, At
    <3> QED BY <3>1, <3>2, AtFinite
  <2>4. Aboard(i)' = Aboard(i)
    BY <1>4, <2>1, <2>2, <2>3 DEF Aboard
  <2> QED BY <1>1, <1>2, <2>4 DEF Still, StillSpoiled
<1>6. Chosen'
  <2>1. CASE PopOther(c)
    BY <1>0, <2>1, ChosenStep DEF PopOther
  <2>2. CASE PopReplay(c)
    BY <1>0, <2>2, ChosenStep DEF PopReplay
  <2> QED BY <2>1, <2>2
<1> QED BY <1>4, <1>5, <1>6 DEF Kind, Tracked

LEMMA KindDiscard ==
  ASSUME TypeOK, Tracked, NEW c \in Command, PopDiscard(c)
  PROVE  Kind /\ Tracked'
<1>0. HandsFinite /\ Chosen /\ gone \in [Id -> SUBSET {"settled", "discarded"}]
  BY DEF Tracked, TypeOK
<1>1. /\ Turn(c) /\ UNCHANGED <<pc, hand>> /\ Head(dead) \in Matching[c] /\ Mode[c] = "discard"
      /\ gone' = [gone EXCEPT ![Head(dead)] = gone[Head(dead)] \cup {"discarded"}]
  BY DEF PopDiscard
<1>2. /\ dead # <<>> /\ Head(dead) \in Id /\ dead' = Tail(dead) /\ UNCHANGED <<queued, spoiled>>
  BY <1>1, TurnType
<1>3. PICK h \in Id : h = Head(dead)
  BY <1>2
<1>4. \A i \in Id : Hands(i)' = Hands(i)
  BY <1>1 DEF Hands
<1>5. Tracked'
  BY <1>0, <1>1, <1>4 DEF Tracked, HandsFinite, Chosen
<1>6. ASSUME NEW i \in Id PROVE Aboard(i) = Aboard(i)' + (IF i = h THEN 1 ELSE 0) /\ Aboard(i)' \in Nat
  <2>1. Cardinality(Places(i)) = Cardinality(Places(i))' + (IF i = h THEN 1 ELSE 0)
    BY <1>2, <1>3, PopCount
  <2>2. Cardinality(Places(i)) \in Nat /\ Cardinality(Hands(i)) \in Nat
    BY <1>0, AboardNat
  <2>3. Cardinality(Places(i))' \in Nat
    <3>1. Tail(dead) \in Seq(Id)
      BY <1>2, HeadIn
    <3>2. Places(i)' = At(Tail(dead), i)
      BY <1>2 DEF Places, At
    <3> QED BY <3>1, <3>2, AtFinite
  <2> QED BY <1>4, <2>1, <2>2, <2>3 DEF Aboard
<1>7. gone'[h] = gone[h] \cup {"discarded"} /\ \A i \in Id \ {h} : gone'[i] = gone[i]
  BY <1>0, <1>1, <1>3
<1>8. OnlyOn(h)
  BY <1>2, <1>6, <1>7 DEF OnlyOn, Still, StillSpoiled
<1>9. h \in Selected("discard")
  BY <1>1, <1>3 DEF Selected
<1>10. Discards(h)
  BY <1>2, <1>6, <1>7, <1>9 DEF Discards, StillSpoiled
<1> QED BY <1>5, <1>8, <1>10 DEF Kind

\* a hand gives its message back to the list
LEMMA KindPush ==
  ASSUME TypeOK, Tracked, NEW c \in Command, NEW label \in {"loop", "raised"},
         hand[c] \in Id, RpushDead(hand[c]), Take(c, NoId), Goto(c, label),
         UNCHANGED <<queued, gone, spoiled>>
  PROVE  Kind /\ Tracked'
<1>0. HandsFinite /\ Chosen
  BY DEF Tracked
<1>1. PICK h \in Id : h = hand[c]
  OBVIOUS
<1>2. /\ HandsFinite'
      /\ \A i \in Id : Cardinality(Hands(i)) = Cardinality(Hands(i))' + (IF i = h THEN 1 ELSE 0)
      /\ \A i \in Id : Cardinality(Hands(i))' \in Nat
  BY <1>0, <1>1, DropCount
<1>3. ASSUME NEW i \in Id PROVE Still(i)
  <2>1. Cardinality(Places(i))' = Cardinality(Places(i)) + (IF i = h THEN 1 ELSE 0)
    BY <1>1, RpushCount DEF RpushDead
  <2>2. Cardinality(Places(i)) \in Nat /\ Cardinality(Hands(i)) \in Nat
    BY <1>0, AboardNat
  <2>3. Aboard(i)' = Aboard(i)
    BY <1>2, <2>1, <2>2 DEF Aboard
  <2> QED BY <2>3 DEF Still, StillSpoiled
<1>4. Chosen'
  BY <1>0, ChosenStep
<1> QED BY <1>2, <1>3, <1>4 DEF Kind, Tracked

\* a hand lets its message go elsewhere: to job:queue, or nobody knows where
LEMMA KindDrop ==
  ASSUME TypeOK, Tracked, NEW c \in Command, NEW label \in {"loop", "raised"},
         hand[c] \in Id, dead' = dead, gone' = gone, Take(c, NoId), Goto(c, label),
         \/ /\ pc[c] = "replay" /\ LpushQueue(hand[c]) /\ spoiled' = spoiled
         \/ Spoil(hand[c]) /\ queued' = queued
  PROVE  Kind /\ Tracked'
<1>0. HandsFinite /\ Chosen /\ queued \in [Id -> Nat]
  BY DEF Tracked, TypeOK
<1>1. PICK h \in Id : h = hand[c]
  OBVIOUS
<1>2. /\ HandsFinite'
      /\ \A i \in Id : Cardinality(Hands(i)) = Cardinality(Hands(i))' + (IF i = h THEN 1 ELSE 0)
      /\ \A i \in Id : Cardinality(Hands(i))' \in Nat
  BY <1>0, <1>1, DropCount
<1>3. ASSUME NEW i \in Id PROVE Aboard(i) = Aboard(i)' + (IF i = h THEN 1 ELSE 0) /\ Aboard(i)' \in Nat
  <2>1. Places(i)' = Places(i)
    BY DEF Places
  <2>2. Cardinality(Places(i)) \in Nat /\ Cardinality(Hands(i)) \in Nat
    BY <1>0, AboardNat
  <2> QED BY <1>2, <2>1, <2>2 DEF Aboard
<1>4. Chosen'
  BY <1>0, ChosenStep
<1>5. CASE pc[c] = "replay" /\ LpushQueue(hand[c]) /\ spoiled' = spoiled
  <2>1. queued'[h] = queued[h] + 1 /\ \A i \in Id \ {h} : queued'[i] = queued[i]
    BY <1>0, <1>1, <1>5 DEF LpushQueue
  <2>2. OnlyOn(h)
    BY <1>3, <1>5, <2>1 DEF OnlyOn, Still, StillSpoiled
  <2>3. h \in Selected("replay")
    BY <1>0, <1>1, <1>5 DEF Chosen, Selected
  <2>4. Replays(h)
    BY <1>3, <1>5, <2>1, <2>3 DEF Replays, StillSpoiled
  <2> QED BY <1>2, <1>4, <2>2, <2>4 DEF Kind, Tracked
<1>6. CASE Spoil(hand[c]) /\ queued' = queued
  <2>1. spoiled' = spoiled \cup {h}
    BY <1>1, <1>6 DEF Spoil
  <2>2. OnlyOn(h)
    BY <1>3, <1>6, <2>1 DEF OnlyOn, Still, StillSpoiled
  <2>3. Spoils(h)
    BY <1>3, <2>1 DEF Spoils
  <2> QED BY <1>2, <1>4, <2>2, <2>3 DEF Kind, Tracked
<1> QED BY <1>5, <1>6

LEMMA KindGive ==
  ASSUME TypeOK, Tracked, NEW c \in Command,
         Rotate(c) \/ Replay(c) \/ Restore(c) \/ RestoreFails(c)
  PROVE  Kind /\ Tracked'
<1>1. hand[c] \in Id
  <2>1. pc[c] \in Running \ {"loop"}
    BY DEF Rotate, Replay, Restore, RestoreFails, Running
  <2> QED BY <2>1 DEF TypeOK
<1>2. Take(c, NoId) /\ Goto(c, "loop")
  BY DEF Rotate, Replay, Restore, RestoreFails
<1>3. CASE RpushDead(hand[c]) /\ UNCHANGED <<queued, gone, spoiled>>
  BY <1>1, <1>2, <1>3, KindPush
<1>4. CASE Replay(c)
  <2>1. pc[c] = "replay" /\ LpushQueue(hand[c]) /\ UNCHANGED <<dead, gone, spoiled>>
    BY <1>4 DEF Replay, histVars
  <2> QED BY <1>1, <1>2, <2>1, KindDrop
<1>5. CASE Spoil(hand[c]) /\ UNCHANGED <<dead, queued, gone>>
  BY <1>1, <1>2, <1>5, KindDrop
<1>6. \/ RpushDead(hand[c]) /\ UNCHANGED <<queued, gone, spoiled>>
      \/ Replay(c)
      \/ Spoil(hand[c]) /\ UNCHANGED <<dead, queued, gone>>
  BY DEF Rotate, Restore, RestoreFails
<1> QED BY <1>3, <1>4, <1>5, <1>6

\* the LPUSH of a replay raises: the hand keeps the original
LEMMA KindReplayFails ==
  ASSUME TypeOK, Tracked, NEW c \in Command, ReplayFails(c)
  PROVE  Kind /\ Tracked'
<1>0. HandsFinite /\ Chosen /\ queued \in [Id -> Nat]
  BY DEF Tracked, TypeOK
<1>1. pc[c] = "replay" /\ Goto(c, "restore") /\ UNCHANGED <<dead, hand, gone>>
  BY DEF ReplayFails
<1>2. hand[c] \in Id
  BY <1>1 DEF TypeOK, Running
<1>3. PICK h \in Id : h = hand[c]
  BY <1>2
<1>4. Chosen'
  BY <1>0, <1>1 DEF Chosen, Goto, TypeOK
<1>5. \A i \in Id : Places(i)' = Places(i) /\ Hands(i)' = Hands(i)
  BY <1>1 DEF Places, Hands
<1>6. HandsFinite' /\ \A i \in Id : Aboard(i)' = Aboard(i)
  BY <1>0, <1>5 DEF HandsFinite, Aboard
<1>7. CASE UNCHANGED <<queued, spoiled>>
  <2>1. \A i \in Id : Still(i)
    BY <1>1, <1>7, AllStill
  <2> QED BY <1>4, <1>6, <2>1 DEF Kind, Tracked
<1>8. CASE LpushQueue(hand[c]) /\ Spoil(hand[c])
  <2>1. \A i \in Id \ {h} : queued'[i] = queued[i]
    BY <1>0, <1>3, <1>8 DEF LpushQueue
  <2>2. spoiled' = spoiled \cup {h}
    BY <1>3, <1>8 DEF Spoil
  <2>3. OnlyOn(h)
    BY <1>1, <1>6, <2>1, <2>2 DEF OnlyOn, Still, StillSpoiled
  <2>4. c \in Hands(h)
    BY <1>3 DEF Hands
  <2>5. Aboard(h) > 0
    BY <1>0, <2>4, AboardNat
  <2>6. Spoils(h)
    BY <2>2, <2>5 DEF Spoils
  <2> QED BY <1>4, <1>6, <2>3, <2>6 DEF Kind, Tracked
<1> QED BY <1>7, <1>8 DEF ReplayFails

\* an outage: before an LPOP, around it, or with a message in the hand
LEMMA KindRaised ==
  ASSUME TypeOK, Tracked, NEW c \in Command, Raised(c)
  PROVE  Kind /\ Tracked'
<1>0. HandsFinite /\ Chosen
  BY DEF Tracked
<1>1. Take(c, NoId) /\ Goto(c, "raised") /\ UNCHANGED <<queued, gone>>
  BY DEF Raised
<1>2. Chosen'
  BY <1>0, <1>1, ChosenStep
<1>3. pc[c] = "rotate" => hand[c] \in Id
  BY DEF TypeOK, Running
<1>4. pc[c] \in {"new", "loop"} => hand[c] = NoId
  BY DEF TypeOK, Running
<1>5. pc[c] \in {"new", "loop"} => hand' = hand
  BY <1>1, <1>4, EmptyHand
<1>6. CASE pc[c] \in {"new", "loop"} /\ UNCHANGED <<dead, spoiled>>
  <2>1. (\A i \in Id : Still(i)) /\ HandsFinite'
    BY <1>0, <1>1, <1>5, <1>6, AllStill
  <2> QED BY <1>2, <2>1 DEF Kind, Tracked
<1>7. CASE pc[c] = "loop" /\ LpopDead /\ Spoil(Head(dead))
  <2>1. dead # <<>> /\ dead' = Tail(dead) /\ Head(dead) \in Id /\ Tail(dead) \in Seq(Id)
    BY <1>7, HeadIn DEF LpopDead
  <2>2. PICK h \in Id : h = Head(dead)
    BY <2>1
  <2>3. \A i \in Id : Hands(i)' = Hands(i)
    BY <1>5, <1>7 DEF Hands
  <2>4. HandsFinite'
    BY <1>0, <2>3 DEF HandsFinite
  <2>5. ASSUME NEW i \in Id
        PROVE  Aboard(i) = Aboard(i)' + (IF i = h THEN 1 ELSE 0) /\ Aboard(i)' \in Nat
    <3>1. Cardinality(Places(i)) = Cardinality(Places(i))' + (IF i = h THEN 1 ELSE 0)
      BY <2>1, <2>2, PopCount
    <3>2. Cardinality(Places(i)) \in Nat /\ Cardinality(Hands(i)) \in Nat
      BY <1>0, AboardNat
    <3>3. Cardinality(Places(i))' \in Nat
      <4>1. Places(i)' = At(Tail(dead), i)
        BY <2>1 DEF Places, At
      <4> QED BY <2>1, <4>1, AtFinite
    <3> QED BY <2>3, <3>1, <3>2, <3>3 DEF Aboard
  <2>6. spoiled' = spoiled \cup {h}
    BY <1>7, <2>2 DEF Spoil
  <2>7. OnlyOn(h)
    BY <1>1, <2>5, <2>6 DEF OnlyOn, Still, StillSpoiled
  <2>8. Spoils(h)
    BY <2>5, <2>6 DEF Spoils
  <2> QED BY <1>2, <2>4, <2>7, <2>8 DEF Kind, Tracked
<1>8. CASE pc[c] = "rotate" /\ dead' = dead /\ Spoil(hand[c])
  BY <1>1, <1>3, <1>8, KindDrop
<1>9. CASE pc[c] = "rotate" /\ RpushDead(hand[c]) /\ spoiled' = spoiled
  BY <1>1, <1>3, <1>9, KindPush
<1>10. \/ pc[c] \in {"new", "loop"} /\ UNCHANGED <<dead, spoiled>>
       \/ pc[c] = "loop" /\ LpopDead /\ Spoil(Head(dead))
       \/ pc[c] = "rotate" /\ dead' = dead /\ Spoil(hand[c])
       \/ pc[c] = "rotate" /\ RpushDead(hand[c]) /\ spoiled' = spoiled
  BY DEF Raised
<1> QED BY <1>6, <1>7, <1>8, <1>9, <1>10

\* the command is killed with a message in its hand: pushed, or lost
LEMMA KindKilled ==
  ASSUME TypeOK, Tracked, NEW c \in Command, Killed(c)
  PROVE  Kind /\ Tracked'
<1>1. hand[c] \in Id
  <2>1. pc[c] \in Running \ {"loop"}
    BY DEF Killed, Running
  <2> QED BY <2>1 DEF TypeOK
<1>2. Take(c, NoId) /\ Goto(c, "raised") /\ gone' = gone
  BY DEF Killed
<1>3. CASE RpushDead(hand[c]) /\ UNCHANGED <<queued, spoiled>>
  BY <1>1, <1>2, <1>3, KindPush
<1>4. CASE pc[c] = "replay" /\ LpushQueue(hand[c]) /\ UNCHANGED <<dead, spoiled>>
  BY <1>1, <1>2, <1>4, KindDrop
<1>5. CASE Spoil(hand[c]) /\ UNCHANGED <<dead, queued>>
  BY <1>1, <1>2, <1>5, KindDrop
<1>6. \/ RpushDead(hand[c]) /\ UNCHANGED <<queued, spoiled>>
      \/ pc[c] = "replay" /\ LpushQueue(hand[c]) /\ UNCHANGED <<dead, spoiled>>
      \/ Spoil(hand[c]) /\ UNCHANGED <<dead, queued>>
  BY DEF Killed, redisVars
<1> QED BY <1>3, <1>4, <1>5, <1>6

\* Every step is of one of the kinds.
LEMMA StepKinds == TypeOK /\ Tracked /\ [Next]_vars => Kind /\ Tracked'
<1> SUFFICES ASSUME TypeOK, Tracked, [Next]_vars PROVE Kind /\ Tracked'
  OBVIOUS
<1>1. CASE UNCHANGED vars
  <2>1. UNCHANGED <<dead, queued, hand, gone, spoiled, pc>>
    BY <1>1 DEF vars, redisVars, commandVars, histVars
  <2>2. (\A i \in Id : Still(i)) /\ HandsFinite'
    BY <2>1, AllStill DEF Tracked
  <2>3. Chosen'
    BY <2>1 DEF Tracked, Chosen
  <2> QED BY <2>2, <2>3 DEF Kind, Tracked
<1>2. ASSUME NEW i \in Id, Settle(i) \/ Bury(i) PROVE Kind /\ Tracked'
  BY <1>2, KindWorker
<1>3. ASSUME NEW c \in Command, CommandStep(c) PROVE Kind /\ Tracked'
  <2>1. CASE Begin(c) \/ Finish(c)
    BY <2>1, KindBegin
  <2>2. CASE PopOther(c) \/ PopReplay(c)
    BY <2>2, KindPop
  <2>3. CASE PopDiscard(c)
    BY <2>3, KindDiscard
  <2>4. CASE Rotate(c) \/ Replay(c) \/ Restore(c) \/ RestoreFails(c)
    BY <2>4, KindGive
  <2>5. CASE ReplayFails(c)
    BY <2>5, KindReplayFails
  <2>6. CASE Raised(c)
    BY <2>6, KindRaised
  <2>7. CASE Killed(c)
    BY <2>7, KindKilled
  <2> QED BY <1>3, <2>1, <2>2, <2>3, <2>4, <2>5, <2>6, <2>7 DEF CommandStep
<1> QED BY <1>1, <1>2, <1>3 DEF Next

-----------------------------------------------------------------------------
(* A message exists once. *)

LEMMA StartInv == Init => TypeOK /\ Tracked /\ ExactlyOnce
<1> SUFFICES ASSUME Init PROVE TypeOK /\ Tracked /\ ExactlyOnce
  OBVIOUS
<1>1. TypeOK
  BY TypeInit
<1>2. /\ dead = <<>> /\ hand = [c \in Command |-> NoId] /\ gone = [i \in Id |-> {}]
      /\ queued = [i \in Id |-> 1] /\ pc = [c \in Command |-> "new"]
  BY DEF Init
<1>3. \A i \in Id : Places(i) = {}
  BY <1>2 DEF Places
<1>4. \A i \in Id : Hands(i) = {}
  BY <1>2, IdAssumption DEF Hands
<1>5. Cardinality({}) = 0 /\ IsFiniteSet({})
  BY FS_EmptySet
<1>6. Tracked
  BY <1>2, <1>4, <1>5 DEF Tracked, HandsFinite, Chosen
<1>7. ASSUME NEW i \in Id
      PROVE  Copies(i) = 1 /\ gone[i] = {} /\ Cardinality(gone[i]) = 0
  <2>1. Cardinality(Places(i)) = 0 /\ Cardinality(Hands(i)) = 0
    BY <1>3, <1>4, <1>5
  <2>2. queued[i] = 1 /\ gone[i] = {}
    BY <1>2
  <2>3. Cardinality(gone[i]) = 0
    BY <1>5, <2>2
  <2> QED BY <2>1, <2>2, <2>3 DEF Copies
<1>8. ExactlyOnce
  BY <1>7 DEF ExactlyOnce
<1> QED BY <1>1, <1>6, <1>8

\* ExactlyOnce, of one message.
Once(i) == i \notin spoiled =>
  /\ Copies(i) = (IF gone[i] = {} THEN 1 ELSE 0)
  /\ Cardinality(gone[i]) <= 1

\* What the counts add up to, before and after a step.
Summed ==
  \A i \in Id :
    queued[i] \in Nat /\ Aboard(i) \in Nat /\ Copies(i) = queued[i] + Aboard(i)

LEMMA CopiesSum == TypeOK /\ Tracked => Summed
BY AboardNat DEF Tracked, Summed

LEMMA OnceStep ==
  ASSUME TypeOK, Tracked, TypeOK', Tracked', Kind, NEW i \in Id, Once(i)
  PROVE  Once(i)'
<1>1. queued[i] \in Nat /\ Aboard(i) \in Nat /\ Copies(i) = queued[i] + Aboard(i)
  BY CopiesSum DEF Summed
<1>2. Summed'
  BY CopiesSum, PTL
<1>3. queued'[i] \in Nat /\ Aboard(i)' \in Nat /\ Copies(i)' = queued'[i] + Aboard(i)'
  BY <1>2 DEF Summed
<1>4. \/ Still(i) \/ Settles(i) \/ Buries(i) \/ Discards(i) \/ Replays(i) \/ Spoils(i)
  BY DEF Kind, OnlyOn
<1>5. SUFFICES ASSUME i \notin spoiled'
               PROVE  /\ Copies(i)' = (IF gone'[i] = {} THEN 1 ELSE 0)
                      /\ Cardinality(gone'[i]) <= 1
  BY DEF Once
<1>6. i \notin spoiled /\ ~ Spoils(i)
  BY <1>4, <1>5 DEF Still, Settles, Buries, Discards, Replays, Spoils, StillSpoiled
<1>7. Copies(i) = (IF gone[i] = {} THEN 1 ELSE 0) /\ Cardinality(gone[i]) <= 1
  BY <1>6 DEF Once
<1>8. CASE Still(i) \/ Buries(i) \/ Replays(i)
  <2>1. gone'[i] = gone[i] /\ queued'[i] + Aboard(i)' = queued[i] + Aboard(i)
    BY <1>1, <1>3, <1>8 DEF Still, Buries, Replays
  <2> QED BY <1>1, <1>3, <1>7, <2>1
<1>9. CASE Settles(i) \/ Discards(i)
  <2>1. queued[i] + Aboard(i) > 0 /\ queued'[i] + Aboard(i)' = queued[i] + Aboard(i) - 1
    BY <1>1, <1>3, <1>9 DEF Settles, Discards
  <2>2. gone[i] = {} /\ Copies(i)' = 0
    BY <1>1, <1>3, <1>7, <2>1
  <2>a. gone'[i] = gone[i] \cup {"settled"} \/ gone'[i] = gone[i] \cup {"discarded"}
    BY <1>9 DEF Settles, Discards
  <2>3. PICK where : gone'[i] = {where}
    BY <2>2, <2>a
  <2>4. Cardinality(gone'[i]) = 1
    BY <2>3, FS_Singleton
  <2> QED BY <2>2, <2>3, <2>4
<1> QED BY <1>4, <1>6, <1>8, <1>9

LEMMA OnceAll == ExactlyOnce <=> \A i \in Id : Once(i)
BY DEF ExactlyOnce, Once

Inv == TypeOK /\ Tracked /\ ExactlyOnce

LEMMA StepInv == Inv /\ [Next]_vars => Inv' /\ Kind
<1> SUFFICES ASSUME Inv, [Next]_vars PROVE Inv' /\ Kind
  OBVIOUS
<1>1. TypeOK' /\ Tracked' /\ Kind
  BY TypeNext, StepKinds DEF Inv
<1>2. \A i \in Id : Once(i)
  BY OnceAll DEF Inv
<1>3. \A i \in Id : Once(i)'
  BY <1>1, <1>2, OnceStep DEF Inv
<1>4. ExactlyOnce'
  BY <1>3 DEF ExactlyOnce, Once
<1> QED BY <1>1, <1>4 DEF Inv

LEMMA InvHolds == Spec => []Inv
<1>1. Init => Inv
  BY StartInv DEF Inv
<1>2. Inv /\ [Next]_vars => Inv'
  BY StepInv
<1> QED BY <1>1, <1>2, PTL DEF Spec

\* ExactlyOnce always holds: whatever commands and workers do to job:dead at
\* the same time, a message that no failing call lost or doubled is in one place
\* until it is settled or discarded, and in none afterwards.
THEOREM MessagesExistOnce == Spec => []ExactlyOnce
<1>1. Inv => ExactlyOnce
  BY DEF Inv
<1> QED BY <1>1, InvHolds, PTL

-----------------------------------------------------------------------------
(* The rotating commands implement the abstract list. *)

\* Where PlaceOf sees a message, in terms of the counts.
Located ==
  \A i \in Id :
    /\ i \in spoiled => PlaceOf(i) = "unknown"
    /\ i \notin spoiled => /\ Aboard(i) > 0 => PlaceOf(i) = "dead"
                           /\ Aboard(i) = 0 /\ queued[i] > 0 => PlaceOf(i) = "queued"
                           /\ Aboard(i) = 0 /\ queued[i] = 0 =>
                                PlaceOf(i) = IF "discarded" \in gone[i] THEN "discarded" ELSE "settled"

LEMMA PlaceFromCounts == TypeOK /\ Tracked => Located
<1> SUFFICES ASSUME TypeOK, Tracked, NEW i \in Id
             PROVE  /\ i \in spoiled => PlaceOf(i) = "unknown"
                    /\ i \notin spoiled =>
                         /\ Aboard(i) > 0 => PlaceOf(i) = "dead"
                         /\ Aboard(i) = 0 /\ queued[i] > 0 => PlaceOf(i) = "queued"
                         /\ Aboard(i) = 0 /\ queued[i] = 0 =>
                              PlaceOf(i) = IF "discarded" \in gone[i] THEN "discarded" ELSE "settled"
  BY DEF Located
<1>1. (Places(i) # {} \/ Hands(i) # {} <=> Aboard(i) > 0) /\ Aboard(i) \in Nat /\ queued[i] \in Nat
  BY AboardNat DEF Tracked
<1> QED BY <1>1 DEF PlaceOf

\* What a step does to the place of one message.
LEMMA PlaceStep ==
  ASSUME Inv, Inv', NEW i \in Id
  PROVE  /\ Still(i) => PlaceOf(i)' = PlaceOf(i)
         /\ i \in spoiled /\ i \in spoiled' => PlaceOf(i)' = PlaceOf(i)
         /\ i \notin spoiled =>
              /\ Settles(i) => PlaceOf(i) = "queued" /\ PlaceOf(i)' = "settled"
              /\ Buries(i) => PlaceOf(i) = "queued" /\ PlaceOf(i)' = "dead"
              /\ Discards(i) => PlaceOf(i) = "dead" /\ PlaceOf(i)' = "discarded"
              /\ Replays(i) => PlaceOf(i) = "dead" /\ PlaceOf(i)' = "queued"
              /\ Spoils(i) => PlaceOf(i) = "dead" /\ PlaceOf(i)' = "unknown"
<1>1. Summed /\ Located /\ Once(i)
  BY CopiesSum, PlaceFromCounts, OnceAll DEF Inv
<1>2. Summed' /\ Located'
  BY CopiesSum, PlaceFromCounts, PTL DEF Inv
<1>3. queued[i] \in Nat /\ Aboard(i) \in Nat /\ Copies(i) = queued[i] + Aboard(i)
  BY <1>1 DEF Summed
<1>4. queued'[i] \in Nat /\ Aboard(i)' \in Nat /\ Copies(i)' = queued'[i] + Aboard(i)'
  BY <1>2 DEF Summed
<1>5. /\ i \in spoiled => PlaceOf(i) = "unknown"
      /\ i \notin spoiled => /\ Aboard(i) > 0 => PlaceOf(i) = "dead"
                             /\ Aboard(i) = 0 /\ queued[i] > 0 => PlaceOf(i) = "queued"
                             /\ Aboard(i) = 0 /\ queued[i] = 0 =>
                                  PlaceOf(i) = IF "discarded" \in gone[i] THEN "discarded" ELSE "settled"
  BY <1>1 DEF Located
<1>6. /\ i \in spoiled' => PlaceOf(i)' = "unknown"
      /\ i \notin spoiled' => /\ Aboard(i)' > 0 => PlaceOf(i)' = "dead"
                              /\ Aboard(i)' = 0 /\ queued'[i] > 0 => PlaceOf(i)' = "queued"
                              /\ Aboard(i)' = 0 /\ queued'[i] = 0 =>
                                   PlaceOf(i)' = IF "discarded" \in gone'[i] THEN "discarded" ELSE "settled"
  BY <1>2 DEF Located
<1>7. i \notin spoiled => queued[i] + Aboard(i) = IF gone[i] = {} THEN 1 ELSE 0
  BY <1>1, <1>3 DEF Once
<1>8. Still(i) => PlaceOf(i)' = PlaceOf(i)
  BY <1>3, <1>5, <1>6 DEF Still, StillSpoiled
<1>9. i \in spoiled /\ i \in spoiled' => PlaceOf(i)' = PlaceOf(i)
  BY <1>5, <1>6
<1>10. ASSUME i \notin spoiled, Settles(i) PROVE PlaceOf(i) = "queued" /\ PlaceOf(i)' = "settled"
  <2>1. Aboard(i) = 0 /\ queued[i] = 1 /\ gone[i] = {}
    BY <1>3, <1>7, <1>10 DEF Settles
  <2>2. i \notin spoiled' /\ Aboard(i)' = 0 /\ queued'[i] = 0 /\ gone'[i] = {"settled"}
    BY <1>10, <2>1 DEF Settles, StillSpoiled
  <2> QED BY <1>5, <1>6, <1>10, <2>1, <2>2
<1>11. ASSUME i \notin spoiled, Buries(i) PROVE PlaceOf(i) = "queued" /\ PlaceOf(i)' = "dead"
  <2>1. Aboard(i) = 0 /\ queued[i] = 1
    BY <1>3, <1>7, <1>11 DEF Buries
  <2>2. i \notin spoiled' /\ Aboard(i)' > 0
    BY <1>11, <2>1 DEF Buries, StillSpoiled
  <2> QED BY <1>5, <1>6, <1>11, <2>1, <2>2
<1>12. ASSUME i \notin spoiled, Discards(i) PROVE PlaceOf(i) = "dead" /\ PlaceOf(i)' = "discarded"
  <2>1. Aboard(i) = 1 /\ queued[i] = 0
    BY <1>3, <1>7, <1>12 DEF Discards
  <2>2. i \notin spoiled' /\ Aboard(i)' = 0 /\ queued'[i] = 0 /\ "discarded" \in gone'[i]
    BY <1>12, <2>1 DEF Discards, StillSpoiled
  <2> QED BY <1>5, <1>6, <1>12, <2>1, <2>2
<1>13. ASSUME i \notin spoiled, Replays(i) PROVE PlaceOf(i) = "dead" /\ PlaceOf(i)' = "queued"
  <2>1. Aboard(i) = 1 /\ queued[i] = 0
    BY <1>3, <1>7, <1>13 DEF Replays
  <2>2. i \notin spoiled' /\ Aboard(i)' = 0 /\ queued'[i] = 1
    BY <1>13, <2>1 DEF Replays, StillSpoiled
  <2> QED BY <1>5, <1>6, <1>13, <2>1, <2>2
<1>14. ASSUME i \notin spoiled, Spoils(i) PROVE PlaceOf(i) = "dead" /\ PlaceOf(i)' = "unknown"
  BY <1>5, <1>6, <1>14 DEF Spoils
<1> QED BY <1>8, <1>9, <1>10, <1>11, <1>12, <1>13, <1>14

\* The value that the abstract variable has.
place == [i \in Id |-> PlaceOf(i)]

\* One message moves, and the others stay.
LEMMA PlaceMoves ==
  ASSUME NEW i \in Id, \A j \in Id \ {i} : PlaceOf(j)' = PlaceOf(j)
  PROVE  place' = [place EXCEPT ![i] = PlaceOf(i)']
BY DEF place

LEMMA PlaceStays ==
  ASSUME \A i \in Id : PlaceOf(i)' = PlaceOf(i)
  PROVE  place' = place
BY DEF place

LEMMA AbstractInit == Init => Store!Init
<1> SUFFICES ASSUME Init PROVE \A i \in Id : PlaceOf(i) = "queued"
  BY DEF Store!Init
<1>1. Inv
  BY StartInv DEF Inv
<1>2. Located /\ Summed
  BY <1>1, PlaceFromCounts, CopiesSum DEF Inv
<1>3. \A i \in Id : queued[i] = 1 /\ gone[i] = {} /\ i \notin spoiled
  BY DEF Init
<1>4. \A i \in Id : Aboard(i) = 0
  BY <1>1, <1>2, <1>3, OnceAll DEF Inv, Once, Summed
<1> QED BY <1>2, <1>3, <1>4 DEF Located

LEMMA AbstractStep == Inv /\ Inv' /\ Kind => [Store!Next]_place
<1> SUFFICES ASSUME Inv, Inv', Kind PROVE [Store!Next]_place
  OBVIOUS
<1>1. CASE \A i \in Id : Still(i)
  BY <1>1, PlaceStep, PlaceStays
<1>2. ASSUME NEW i \in Id, OnlyOn(i),
             Settles(i) \/ Buries(i) \/ Discards(i) \/ Replays(i) \/ Spoils(i)
      PROVE  [Store!Next]_place
  <2>1. \A j \in Id \ {i} : PlaceOf(j)' = PlaceOf(j)
    BY <1>2, PlaceStep DEF OnlyOn
  <2>2. place' = [place EXCEPT ![i] = PlaceOf(i)']
    BY <2>1, PlaceMoves
  <2>3. place[i] = PlaceOf(i)
    BY DEF place
  <2>4. CASE i \in spoiled
    <3>1. i \in spoiled'
      BY <1>2, <2>4 DEF Settles, Buries, Discards, Replays, Spoils, StillSpoiled
    <3>2. \A j \in Id : PlaceOf(j)' = PlaceOf(j)
      BY <2>1, <2>4, <3>1, PlaceStep
    <3> QED BY <3>2, PlaceStays
  <2>5. CASE i \notin spoiled
    <3>1. CASE Settles(i)
      <4>1. Store!Settle(i)
        BY <2>2, <2>3, <2>5, <3>1, PlaceStep DEF Store!Settle, Store!Move, place
      <4> QED BY <4>1 DEF Store!Next
    <3>2. CASE Buries(i)
      <4>1. Store!Bury(i)
        BY <2>2, <2>3, <2>5, <3>2, PlaceStep DEF Store!Bury, Store!Move, place
      <4> QED BY <4>1 DEF Store!Next
    <3>3. CASE Discards(i)
      <4>1. i \in Selected("discard")
        BY <3>3 DEF Discards
      <4>2. Store!Discard(i)
        BY <2>2, <2>3, <2>5, <3>3, <4>1, PlaceStep DEF Store!Discard, Store!Move, place
      <4> QED BY <4>2 DEF Store!Next
    <3>4. CASE Replays(i)
      <4>1. i \in Selected("replay")
        BY <3>4 DEF Replays
      <4>2. Store!Replay(i)
        BY <2>2, <2>3, <2>5, <3>4, <4>1, PlaceStep DEF Store!Replay, Store!Move, place
      <4> QED BY <4>2 DEF Store!Next
    <3>5. CASE Spoils(i)
      <4>1. Store!Spoil(i)
        BY <2>2, <2>3, <2>5, <3>5, PlaceStep DEF Store!Spoil, Store!Move, place
      <4> QED BY <4>1 DEF Store!Next
    <3> QED BY <1>2, <3>1, <3>2, <3>3, <3>4, <3>5
  <2> QED BY <2>4, <2>5
<1> QED BY <1>1, <1>2 DEF Kind

\* Refinement holds: every behaviour of the rotating commands is one of the
\* abstract dead-letter list. The invariant is needed: only because a message
\* exists once is a settled copy the whole message.
THEOREM ReplayImplementsStore == Spec => Refinement
<1>1. Inv /\ [Next]_vars => Inv' /\ Kind
  BY StepInv
<1>2. Inv /\ Inv' /\ Kind => [Store!Next]_([i \in Id |-> PlaceOf(i)])
  BY AbstractStep DEF place
<1>3. Inv /\ [Next]_vars => [Store!Next]_([i \in Id |-> PlaceOf(i)])
  BY <1>1, <1>2
<1> QED BY <1>3, AbstractInit, InvHolds, PTL DEF Spec, Refinement, Store!Spec

-----------------------------------------------------------------------------
(* A pass over a list nobody else touches. *)

\* The positions of the first n are finitely many.
LEMMA PositionsFinite ==
  ASSUME NEW c, NEW s, NEW n \in Nat
  PROVE  /\ IsFiniteSet(Met(c, s, n)) /\ Cardinality(Met(c, s, n)) \in Nat
         /\ IsFiniteSet(Others(c, s, n)) /\ Cardinality(Others(c, s, n)) \in Nat
<1>1. IsFiniteSet(1..n) /\ Met(c, s, n) \in SUBSET (1..n) /\ Others(c, s, n) \in SUBSET (1..n)
  BY FS_Interval DEF Met, Others
<1>2. IsFiniteSet(Met(c, s, n)) /\ IsFiniteSet(Others(c, s, n))
  BY <1>1, FS_Subset
<1> QED BY <1>2, FS_CardinalityType

\* One more position.
LEMMA NextPosition ==
  ASSUME NEW c, NEW s, NEW n \in Nat
  PROVE  /\ n + 1 \notin Met(c, s, n) /\ n + 1 \notin Others(c, s, n)
         /\ s[n + 1] \in Matching[c] =>
              Met(c, s, n + 1) = Met(c, s, n) \cup {n + 1} /\ Others(c, s, n + 1) = Others(c, s, n)
         /\ s[n + 1] \notin Matching[c] =>
              Met(c, s, n + 1) = Met(c, s, n) /\ Others(c, s, n + 1) = Others(c, s, n) \cup {n + 1}
<1>1. \A k : k \in 1..(n + 1) <=> k \in 1..n \/ k = n + 1
  OBVIOUS
<1>2. n + 1 \notin 1..n
  OBVIOUS
<1> QED BY <1>1, <1>2 DEF Met, Others

LEMMA MetCount ==
  ASSUME NEW c, NEW s, NEW n \in Nat
  PROVE  Cardinality(Met(c, s, n + 1)) =
           Cardinality(Met(c, s, n)) + (IF s[n + 1] \in Matching[c] THEN 1 ELSE 0)
<1>1. IsFiniteSet(Met(c, s, n)) /\ Cardinality(Met(c, s, n)) \in Nat
  BY PositionsFinite
<1>2. CASE s[n + 1] \in Matching[c]
  BY <1>1, <1>2, NextPosition, FS_AddElement
<1>3. CASE s[n + 1] \notin Matching[c]
  BY <1>1, <1>3, NextPosition
<1> QED BY <1>2, <1>3

\* A new greatest position is the last of the order and disturbs no other.
LEMMA NthStep ==
  ASSUME NEW n \in Nat, NEW S \in SUBSET (1..n), NEW j \in Nat
  PROVE  /\ j # Cardinality(S) + 1 => Nth(S \cup {n + 1}, j) = Nth(S, j)
         /\ j = Cardinality(S) + 1 => Nth(S \cup {n + 1}, j) = {n + 1}
<1> DEFINE T == S \cup {n + 1}
<1>0. IsFiniteSet(1..n)
  BY FS_Interval
<1>1. IsFiniteSet(S) /\ Cardinality(S) \in Nat
  BY <1>0, FS_Subset, FS_CardinalityType
<1>2. n + 1 \notin S /\ \A k \in S : k <= n /\ k \in Nat
  OBVIOUS
<1>3. \A k \in S : {p \in T : p <= k} = {p \in S : p <= k}
  BY <1>2
<1>a. \A p \in T : p <= n + 1
  BY <1>2
<1>4. {p \in T : p <= n + 1} = T
  BY <1>a
<1>5. Cardinality(T) = Cardinality(S) + 1
  BY <1>1, <1>2, FS_AddElement
<1>6. ASSUME NEW k \in S
      PROVE  Cardinality({p \in S : p <= k}) # Cardinality(S) + 1
  <2>1. {p \in S : p <= k} \in SUBSET S
    OBVIOUS
  <2>2. Cardinality({p \in S : p <= k}) <= Cardinality(S) /\ Cardinality({p \in S : p <= k}) \in Nat
    BY <1>1, <2>1, FS_Subset, FS_CardinalityType
  <2> QED BY <1>1, <2>2
<1>7. Nth(T, j) = {k \in T : Cardinality({p \in T : p <= k}) = j}
  BY DEF Nth
<1>8. Nth(S, j) = {k \in S : Cardinality({p \in S : p <= k}) = j}
  BY DEF Nth
<1>9. \A k \in S : Cardinality({p \in T : p <= k}) = Cardinality({p \in S : p <= k})
  BY <1>3
<1>10. Cardinality({p \in T : p <= n + 1}) = Cardinality(S) + 1
  BY <1>4, <1>5
<1>11. \A k : k \in T <=> k \in S \/ k = n + 1
  OBVIOUS
<1> HIDE DEF T
<1>12. j # Cardinality(S) + 1 => Nth(T, j) = Nth(S, j)
  BY <1>7, <1>8, <1>9, <1>10, <1>11
<1>13. j = Cardinality(S) + 1 => Nth(T, j) = {n + 1}
  BY <1>6, <1>7, <1>9, <1>10, <1>11
<1> QED BY <1>12, <1>13 DEF T

\* The kept messages grow by the ones that are not selected.
LEMMA KeptStep ==
  ASSUME NEW c, NEW s \in Seq(Id), NEW n \in Nat, n < Len(s), Kept(c, s, n) \in Seq(Id)
  PROVE  /\ s[n + 1] \in Matching[c] => Kept(c, s, n + 1) = Kept(c, s, n)
         /\ s[n + 1] \notin Matching[c] => Kept(c, s, n + 1) = Append(Kept(c, s, n), s[n + 1])
         /\ Kept(c, s, n + 1) \in Seq(Id)
<1> DEFINE S == Others(c, s, n)
           T == Others(c, s, n + 1)
           K == Kept(c, s, n)
<1>0. s[n + 1] \in Id
  OBVIOUS
<1>1. K = [j \in 1..Cardinality(S) |-> s[CHOOSE k \in Nth(S, j) : TRUE]]
  BY DEF Kept
<1>2. Kept(c, s, n + 1) = [j \in 1..Cardinality(T) |-> s[CHOOSE k \in Nth(T, j) : TRUE]]
  BY DEF Kept
<1>3. Cardinality(S) \in Nat /\ IsFiniteSet(S) /\ S \in SUBSET (1..n)
  BY PositionsFinite DEF Others
<1>4. CASE s[n + 1] \in Matching[c]
  <2>1. T = S
    BY <1>4, NextPosition
  <2>2. Kept(c, s, n + 1) = Kept(c, s, n)
    BY <1>1, <1>2, <2>1
  <2> QED BY <1>4, <2>2
<1>5. CASE s[n + 1] \notin Matching[c]
  <2>1. T = S \cup {n + 1} /\ n + 1 \notin S
    BY <1>5, NextPosition
  <2>2. Cardinality(T) = Cardinality(S) + 1
    BY <1>3, <2>1, FS_AddElement
  <2> HIDE DEF S, T
  <2>3. \A j \in 1..Cardinality(S) : Nth(T, j) = Nth(S, j)
    <3> SUFFICES ASSUME NEW j \in 1..Cardinality(S) PROVE Nth(S \cup {n + 1}, j) = Nth(S, j)
      BY <2>1
    <3>1. j \in Nat /\ j # Cardinality(S) + 1
      BY <1>3
    <3> QED BY <1>3, <3>1, NthStep
  <2>4. Nth(T, Cardinality(S) + 1) = {n + 1}
    <3>1. PICK j \in Nat : j = Cardinality(S) + 1
      BY <1>3
    <3>2. Nth(S \cup {n + 1}, j) = {n + 1}
      BY <1>3, <3>1, NthStep
    <3> QED BY <2>1, <3>1, <3>2
  <2>5. (CHOOSE k \in {n + 1} : TRUE) = n + 1
    OBVIOUS
  <2>6. \A j \in 1..Cardinality(S) :
          s[CHOOSE k \in Nth(T, j) : TRUE] = s[CHOOSE k \in Nth(S, j) : TRUE]
    BY <2>3
  <2>7. s[CHOOSE k \in Nth(T, Cardinality(S) + 1) : TRUE] = s[n + 1]
    BY <2>4, <2>5
  <2>8. Len(K) = Cardinality(S)
    BY <1>1, <1>3
  <2> DEFINE U == Kept(c, s, n + 1)
             e(j) == s[CHOOSE k \in Nth(T, j) : TRUE]
  <2>9. U = [j \in 1..(Cardinality(S) + 1) |-> e(j)]
    BY <1>2, <2>2
  <2>10. \A j \in 1..Cardinality(S) : e(j) = K[j]
    BY <1>1, <2>6
  <2>11. e(Cardinality(S) + 1) = s[n + 1]
    BY <2>7
  <2> HIDE DEF U, e, K
  <2>12. U = Append(K, s[n + 1])
    BY <1>0, <1>3, <2>8, <2>9, <2>10, <2>11 DEF K
  <2>13. U \in Seq(Id)
    BY <1>0, <2>12 DEF K
  <2> QED BY <1>5, <2>12, <2>13 DEF U, K
<1> QED BY <1>4, <1>5

\* LPOP takes the next message to visit, and the rest stays.
LEMMA VisitedHead ==
  ASSUME NEW S, NEW s \in Seq(S), NEW K \in Seq(S), NEW n \in Nat, n < Len(s)
  PROVE  /\ SubSeq(s, n + 1, Len(s)) \o K # <<>>
         /\ Head(SubSeq(s, n + 1, Len(s)) \o K) = s[n + 1]
         /\ Tail(SubSeq(s, n + 1, Len(s)) \o K) = SubSeq(s, n + 2, Len(s)) \o K
<1> DEFINE A == SubSeq(s, n + 1, Len(s))
           B == SubSeq(s, n + 2, Len(s))
<1>0. Len(s) \in Nat /\ Len(K) \in Nat
  OBVIOUS
<1>1. A \in Seq(S) /\ Len(A) = Len(s) - n /\ \A k \in 1..(Len(s) - n) : A[k] = s[n + k]
  BY <1>0
<1>2. B \in Seq(S) /\ Len(B) = Len(s) - n - 1 /\ \A k \in 1..(Len(s) - n - 1) : B[k] = s[n + 1 + k]
  BY <1>0
<1> HIDE DEF A, B
<1>a. Len(A) \in Nat /\ Len(B) \in Nat /\ Len(A) = Len(B) + 1
  BY <1>0, <1>1, <1>2
<1>b. /\ A \o K \in Seq(S) /\ Len(A \o K) = Len(A) + Len(K)
      /\ \A k \in 1..(Len(A) + Len(K)) : (A \o K)[k] = IF k <= Len(A) THEN A[k] ELSE K[k - Len(A)]
  BY <1>1, ConcatProperties
<1>c. /\ B \o K \in Seq(S) /\ Len(B \o K) = Len(B) + Len(K)
      /\ \A k \in 1..(Len(B) + Len(K)) : (B \o K)[k] = IF k <= Len(B) THEN B[k] ELSE K[k - Len(B)]
  BY <1>2, ConcatProperties
<1>3. (A \o K)[1] = s[n + 1]
  BY <1>0, <1>1, <1>a, <1>b
<1>4. A \o K # <<>> /\ Head(A \o K) = s[n + 1]
  BY <1>0, <1>a, <1>b, <1>3
<1>5. /\ Tail(A \o K) \in Seq(S) /\ Len(Tail(A \o K)) = Len(A \o K) - 1
      /\ \A k \in 1..Len(Tail(A \o K)) : Tail(A \o K)[k] = (A \o K)[k + 1]
  BY <1>b, <1>4, HeadTailProperties
<1>6. Len(Tail(A \o K)) = Len(B \o K)
  <2>1. PICK a \in Nat, b \in Nat, k \in Nat : a = Len(A) /\ b = Len(B) /\ k = Len(K)
    BY <1>0, <1>a
  <2>2. Len(A \o K) = a + k
    BY <1>b, <2>1
  <2>3. Len(B \o K) = b + k
    BY <1>c, <2>1
  <2>4. a = b + 1
    BY <1>a, <2>1
  <2>5. Len(Tail(A \o K)) = (a + k) - 1
    BY <1>5, <2>2
  <2> QED BY <2>3, <2>4, <2>5
<1>7. ASSUME NEW k \in 1..Len(B \o K) PROVE Tail(A \o K)[k] = (B \o K)[k]
  <2>1. Tail(A \o K)[k] = (A \o K)[k + 1] /\ k \in 1..(Len(B) + Len(K))
    BY <1>c, <1>5, <1>6
  <2>2. (A \o K)[k + 1] = IF k + 1 <= Len(A) THEN A[k + 1] ELSE K[k + 1 - Len(A)]
    BY <1>0, <1>a, <1>b, <2>1
  <2>3. (B \o K)[k] = IF k <= Len(B) THEN B[k] ELSE K[k - Len(B)]
    BY <1>c, <2>1
  <2>4. CASE k <= Len(B)
    <3>1. A[k + 1] = s[n + (k + 1)] /\ B[k] = s[n + 1 + k]
      BY <1>0, <1>1, <1>2, <1>a, <2>1, <2>4
    <3> QED BY <1>a, <2>1, <2>2, <2>3, <2>4, <3>1
  <2>5. CASE ~ (k <= Len(B))
    <3>1. ~ (k + 1 <= Len(A)) /\ k + 1 - Len(A) = k - Len(B)
      BY <1>0, <1>a, <2>1, <2>5
    <3> QED BY <2>1, <2>2, <2>3, <2>5, <3>1
  <2> QED BY <2>4, <2>5
<1>8. Tail(A \o K) = B \o K
  BY <1>c, <1>5, <1>6, <1>7, SeqEqual
<1> QED BY <1>4, <1>8 DEF A, B

LEMMA AppendRight ==
  ASSUME NEW A \in Seq(Id), NEW K \in Seq(Id), NEW x \in Id
  PROVE  Append(A \o K, x) = A \o Append(K, x)
<1>1. /\ Append(A \o K, x) \in Seq(Id) /\ A \o Append(K, x) \in Seq(Id)
      /\ Len(Append(A \o K, x)) = Len(A \o Append(K, x))
  OBVIOUS
<1>2. \A k \in 1..Len(A \o Append(K, x)) : Append(A \o K, x)[k] = (A \o Append(K, x))[k]
  OBVIOUS
<1> QED BY <1>1, <1>2, SeqEqual

\* How many messages of its list a command has visited.
Seen(c) == Len(entry[c]) - left[c]

\* A pass under way: it has counted the matching messages it met, has not run
\* past its limit, and has left what Visited says; the message it is rotating is
\* the only one missing.
Under(c) ==
  /\ left[c] <= Len(entry[c])
  /\ Kept(c, entry[c], Seen(c)) \in Seq(Id)
  /\ total[c] = Cardinality(Met(c, entry[c], Seen(c)))
  /\ Limit[c] > 0 => total[c] <= Limit[c]
  /\ Limit[c] > 0 =>
       \A k \in 1..(Seen(c) - 1) : Cardinality(Met(c, entry[c], k)) < Limit[c]
  /\ Visited(c, entry[c], Seen(c)) = IF pc[c] = "rotate" THEN Append(dead, hand[c]) ELSE dead

InPass == {"loop", "rotate", "replay"}

PassOk(c) ==
  /\ pc[c] = "new" => total[c] = 0 /\ calm[c] = FALSE
  /\ calm[c] = TRUE =>
       /\ pc[c] # "restore"
       /\ pc[c] \in InPass => Under(c)
       /\ pc[c] = "done" => dead = Visited(c, entry[c], Stops(c, entry[c]))

PassInv == \A c \in Command : PassOk(c)

\* What a step leaves alone of command c.
Apart(c) ==
  /\ pc'[c] = pc[c] /\ left'[c] = left[c] /\ total'[c] = total[c] /\ hand'[c] = hand[c]
  /\ entry'[c] = entry[c] /\ calm'[c] \in BOOLEAN
  /\ calm'[c] = TRUE => calm[c] = TRUE /\ dead' = dead

LEMMA ApartKeeps ==
  ASSUME NEW c \in Command, PassOk(c), Apart(c)
  PROVE  PassOk(c)'
<1>1. Seen(c)' = Seen(c)
  BY DEF Seen, Apart
<1>2. calm'[c] = TRUE /\ Under(c) => Under(c)'
  BY <1>1 DEF Under, Apart, Visited
<1>3. pc'[c] = "new" => total'[c] = 0 /\ calm'[c] = FALSE
  BY DEF PassOk, Apart
<1>4. calm'[c] = TRUE => /\ pc'[c] # "restore"
                         /\ pc'[c] \in InPass => Under(c)'
                         /\ pc'[c] = "done" => dead' = Visited(c, entry'[c], Stops(c, entry'[c]))
  BY <1>2 DEF PassOk, Apart
<1> QED BY <1>3, <1>4 DEF PassOk

\* A command leaves the others alone, or disturbs them.
LEMMA OthersApart ==
  ASSUME TypeOK, TypeOK', NEW d \in Command, CommandStep(d), NEW c \in Command \ {d}
  PROVE  Apart(c)
<1>1. /\ pc \in [Command -> PC] /\ left \in [Command -> Nat] /\ total \in [Command -> Nat]
      /\ hand \in [Command -> Id \cup {NoId}] /\ entry \in [Command -> Seq(Id)]
      /\ calm \in [Command -> BOOLEAN]
  BY DEF TypeOK
<1>2. calm'[c] \in BOOLEAN
  BY DEF TypeOK
<1>3. pc'[c] = pc[c]
  BY <1>1 DEF CommandStep, Begin, Finish, PopOther, PopDiscard, PopReplay, Rotate, Replay,
     ReplayFails, Restore, RestoreFails, Raised, Killed, Goto
<1>4. hand'[c] = hand[c]
  BY <1>1 DEF CommandStep, Begin, Finish, PopOther, PopDiscard, PopReplay, Rotate, Replay,
     ReplayFails, Restore, RestoreFails, Raised, Killed, Take
<1>5. left'[c] = left[c] /\ total'[c] = total[c]
  BY <1>1 DEF CommandStep, Begin, Finish, PopOther, PopDiscard, PopReplay, Turn, Rotate, Replay,
     ReplayFails, Restore, RestoreFails, Raised, Killed
<1>6. entry'[c] = entry[c]
  BY <1>1 DEF CommandStep, Begin, Finish, PopOther, PopDiscard, PopReplay, Turn, Rotate, Replay,
     ReplayFails, Restore, RestoreFails, Raised, Killed, histVars
<1>7. Disturbs(d) \/ (dead' = dead /\ (calm' = calm \/ \E b \in BOOLEAN : calm' = [calm EXCEPT ![d] = b]))
  BY DEF CommandStep, Begin, Finish, PopOther, PopDiscard, PopReplay, Turn, Rotate, Replay,
     ReplayFails, Restore, RestoreFails, Raised, Killed, redisVars, histVars
<1>8. CASE Disturbs(d)
  <2>1. calm'[c] = FALSE
    BY <1>8 DEF Disturbs
  <2> QED BY <1>2, <1>3, <1>4, <1>5, <1>6, <2>1 DEF Apart
<1>9. CASE dead' = dead /\ (calm' = calm \/ \E b \in BOOLEAN : calm' = [calm EXCEPT ![d] = b])
  <2>1. calm'[c] = calm[c]
    BY <1>1, <1>9
  <2> QED BY <1>2, <1>3, <1>4, <1>5, <1>6, <1>9, <2>1 DEF Apart
<1> QED BY <1>7, <1>8, <1>9

\* Before the first message nothing is met, kept or missing.
LEMMA NothingVisited ==
  ASSUME NEW c, NEW s \in Seq(Id)
  PROVE  Cardinality(Met(c, s, 0)) = 0 /\ Kept(c, s, 0) = <<>> /\ Visited(c, s, 0) = s
<1>1. Met(c, s, 0) = {} /\ Others(c, s, 0) = {}
  BY DEF Met, Others
<1>2. Cardinality(Met(c, s, 0)) = 0 /\ Cardinality(Others(c, s, 0)) = 0
  BY <1>1, FS_EmptySet
<1>3. Kept(c, s, 0) = [j \in 1..0 |-> s[CHOOSE k \in Nth(Others(c, s, 0), j) : TRUE]]
  BY <1>2 DEF Kept
<1>4. Kept(c, s, 0) = <<>>
  BY <1>3
<1>5. SubSeq(s, 1, Len(s)) = s
  OBVIOUS
<1>6. Visited(c, s, 0) = SubSeq(s, 1, Len(s)) \o <<>>
  BY <1>4 DEF Visited
<1>7. s \o <<>> = s
  OBVIOUS
<1> QED BY <1>2, <1>4, <1>5, <1>6, <1>7

\* The limit is reached here for the first time, or nowhere before the end.
LEMMA StopsAt ==
  ASSUME NEW c \in Command, NEW s \in Seq(Id), NEW n \in 0..Len(s),
         Limit[c] > 0 => \A k \in 1..(n - 1) : Cardinality(Met(c, s, k)) < Limit[c],
         n = Len(s) \/ n \in Reached(c, s)
  PROVE  Stops(c, s) = n
<1>0. Limit[c] \in Nat /\ Len(s) \in Nat /\ n \in Nat
  BY LimitAssumption
<1>1. ASSUME NEW r \in Reached(c, s) PROVE n <= r /\ r <= Len(s) /\ r \in Nat
  <2>1. r \in 1..Len(s) /\ Limit[c] > 0 /\ Cardinality(Met(c, s, r)) = Limit[c]
    BY DEF Reached
  <2>2. r \notin 1..(n - 1)
    BY <1>0, <2>1
  <2> QED BY <1>0, <2>1, <2>2
<1>2. CASE Reached(c, s) = {}
  BY <1>2 DEF Stops
<1>3. CASE Reached(c, s) # {}
  <2>1. n \in Reached(c, s)
    <3>1. PICK r : r \in Reached(c, s)
      BY <1>3
    <3>2. n = Len(s) => r = n
      BY <1>0, <1>1, <3>1
    <3> QED BY <3>1, <3>2
  <2>2. \A k \in Reached(c, s) : n <= k
    BY <1>1
  <2>3. \A m \in Reached(c, s) : (\A k \in Reached(c, s) : m <= k) => m = n
    BY <1>0, <1>1, <2>1
  <2>4. (CHOOSE m \in Reached(c, s) : \A k \in Reached(c, s) : m <= k) = n
    BY <2>1, <2>2, <2>3
  <2> QED BY <1>3, <2>4 DEF Stops
<1> QED BY <1>2, <1>3

\* A turn takes the next message of the list the command measured.
LEMMA TurnTakes ==
  ASSUME TypeOK, NEW c \in Command, Under(c), Turn(c)
  PROVE  /\ Seen(c) \in Nat /\ Seen(c) < Len(entry[c]) /\ entry[c] \in Seq(Id)
         /\ entry'[c] = entry[c] /\ left'[c] = left[c] - 1 /\ left[c] \in Nat \ {0}
         /\ Seen(c)' = Seen(c) + 1
         /\ Head(dead) = entry[c][Seen(c) + 1]
         /\ dead' = SubSeq(entry[c], Seen(c) + 2, Len(entry[c])) \o Kept(c, entry[c], Seen(c))
         /\ Limit[c] > 0 => total[c] < Limit[c]
         /\ Limit[c] > 0 =>
              \A k \in 1..Seen(c) : Cardinality(Met(c, entry[c], k)) < Limit[c]
<1>1. /\ left \in [Command -> Nat] /\ total \in [Command -> Nat] /\ entry \in [Command -> Seq(Id)]
      /\ Limit[c] \in Nat
  BY LimitAssumption DEF TypeOK
<1>2. /\ pc[c] = "loop" /\ left[c] # 0 /\ (Limit[c] > 0 => ~ (total[c] >= Limit[c]))
      /\ left' = [left EXCEPT ![c] = @ - 1] /\ entry' = entry /\ dead' = Tail(dead)
  BY DEF Turn, Finished, LpopDead
<1>3. PICK s \in Seq(Id), m \in Nat, n \in Int : s = entry[c] /\ m = Len(s) /\ n = m - left[c]
  BY <1>1
<1>4. Seen(c) = n
  BY <1>3 DEF Seen
<1>5. /\ left[c] <= m /\ Kept(c, s, n) \in Seq(Id) /\ total[c] = Cardinality(Met(c, s, n))
      /\ Limit[c] > 0 => \A k \in 1..(n - 1) : Cardinality(Met(c, s, k)) < Limit[c]
      /\ Visited(c, s, n) = dead
  BY <1>2, <1>3, <1>4 DEF Under
<1>6. left[c] \in Nat \ {0} /\ n \in Nat /\ n < m /\ left'[c] = left[c] - 1
  BY <1>1, <1>2, <1>3, <1>5
<1>7. Seen(c)' = Len(entry'[c]) - left'[c]
  BY DEF Seen
<1>8. Seen(c)' = n + 1
  BY <1>1, <1>2, <1>3, <1>6, <1>7
<1>9. dead = SubSeq(s, n + 1, Len(s)) \o Kept(c, s, n)
  BY <1>5 DEF Visited
<1>10. Head(dead) = s[n + 1] /\ Tail(dead) = SubSeq(s, n + 2, Len(s)) \o Kept(c, s, n)
  <2>1. PICK K \in Seq(Id) : K = Kept(c, s, n)
    BY <1>5
  <2>2. PICK k \in Nat : k = n
    BY <1>6
  <2>3. k < Len(s)
    BY <1>3, <1>6, <2>2
  <2>4. /\ Head(SubSeq(s, k + 1, Len(s)) \o K) = s[k + 1]
        /\ Tail(SubSeq(s, k + 1, Len(s)) \o K) = SubSeq(s, k + 2, Len(s)) \o K
    BY <2>3, VisitedHead
  <2> QED BY <1>9, <2>1, <2>2, <2>4
<1>11. Limit[c] > 0 => total[c] < Limit[c]
  BY <1>1, <1>2
<1>12. Limit[c] > 0 => \A k \in 1..n : Cardinality(Met(c, s, k)) < Limit[c]
  <2>1. \A k \in 1..n : k \in 1..(n - 1) \/ k = n
    BY <1>6
  <2> QED BY <1>5, <1>11, <2>1
<1> QED BY <1>2, <1>3, <1>4, <1>6, <1>8, <1>10, <1>11, <1>12

\* A message that is not selected is on its way to the tail.
LEMMA PopOtherUnder ==
  ASSUME TypeOK, NEW c \in Command, Under(c), PopOther(c)
  PROVE  Under(c)'
<1>1. Turn(c) /\ Head(dead) \notin Matching[c] /\ Take(c, Head(dead)) /\ Goto(c, "rotate") /\ total' = total
  BY DEF PopOther
<1>2. PICK s \in Seq(Id), n \in Nat, m \in Nat : s = entry[c] /\ n = Seen(c) /\ m = Len(s)
  BY <1>1, TurnTakes
<1>3. /\ n < m /\ entry'[c] = s /\ left'[c] = left[c] - 1 /\ left[c] \in Nat \ {0}
      /\ Seen(c)' = n + 1 /\ Head(dead) = s[n + 1]
      /\ dead' = SubSeq(s, n + 2, Len(s)) \o Kept(c, s, n)
      /\ Limit[c] > 0 => \A k \in 1..n : Cardinality(Met(c, s, k)) < Limit[c]
  BY <1>1, <1>2, TurnTakes
<1>4. /\ left[c] <= m /\ Kept(c, s, n) \in Seq(Id) /\ total[c] = Cardinality(Met(c, s, n))
      /\ Limit[c] > 0 => total[c] <= Limit[c]
  BY <1>2 DEF Under
<1>5. pc'[c] = "rotate" /\ hand'[c] = s[n + 1] /\ total'[c] = total[c] /\ s[n + 1] \notin Matching[c]
  BY <1>1, <1>3 DEF Take, Goto, TypeOK
<1>a. n < Len(s) /\ s[n + 1] \in Id
  BY <1>2, <1>3
<1>6. Kept(c, s, n + 1) = Append(Kept(c, s, n), s[n + 1]) /\ Kept(c, s, n + 1) \in Seq(Id)
  BY <1>4, <1>5, <1>a, KeptStep
<1>7. Cardinality(Met(c, s, n)) \in Nat
  BY PositionsFinite
<1>8. Cardinality(Met(c, s, n + 1)) = total'[c]
  BY <1>4, <1>5, <1>7, MetCount
<1>9. Visited(c, s, n + 1) = Append(dead', hand'[c])
  <2>0. SubSeq(s, n + 2, Len(s)) \in Seq(Id)
    BY <1>2
  <2>1. PICK A \in Seq(Id), K \in Seq(Id), x \in Id :
          A = SubSeq(s, n + 2, Len(s)) /\ K = Kept(c, s, n) /\ x = s[n + 1]
    BY <1>4, <1>a, <2>0
  <2>2. Append(A \o K, x) = A \o Append(K, x)
    BY <2>1, AppendRight
  <2>3. (n + 1) + 1 = n + 2
    OBVIOUS
  <2>4. Visited(c, s, n + 1) = SubSeq(s, n + 2, Len(s)) \o Kept(c, s, n + 1)
    BY <2>3 DEF Visited
  <2> QED BY <1>3, <1>5, <1>6, <2>1, <2>2, <2>4
<1>10. left'[c] <= Len(s) /\ (n + 1) - 1 = n
  BY <1>2, <1>3, <1>4
<1> QED BY <1>3, <1>4, <1>5, <1>6, <1>8, <1>9, <1>10 DEF Under

\* A selected message is counted and gone from the list.
LEMMA PopMatchUnder ==
  ASSUME TypeOK, NEW c \in Command, Under(c), Turn(c), Head(dead) \in Matching[c],
         total' = [total EXCEPT ![c] = @ + 1], pc'[c] # "rotate"
  PROVE  Under(c)'
<1>2. PICK s \in Seq(Id), n \in Nat, m \in Nat : s = entry[c] /\ n = Seen(c) /\ m = Len(s)
  BY TurnTakes
<1>3. /\ n < m /\ entry'[c] = s /\ left'[c] = left[c] - 1 /\ left[c] \in Nat \ {0}
      /\ Seen(c)' = n + 1 /\ Head(dead) = s[n + 1]
      /\ dead' = SubSeq(s, n + 2, Len(s)) \o Kept(c, s, n)
      /\ Limit[c] > 0 => total[c] < Limit[c]
      /\ Limit[c] > 0 => \A k \in 1..n : Cardinality(Met(c, s, k)) < Limit[c]
  BY <1>2, TurnTakes
<1>4. /\ left[c] <= m /\ Kept(c, s, n) \in Seq(Id) /\ total[c] = Cardinality(Met(c, s, n))
  BY <1>2 DEF Under
<1>5. total'[c] = total[c] + 1 /\ total[c] \in Nat /\ Limit[c] \in Nat /\ s[n + 1] \in Matching[c]
  BY <1>3, LimitAssumption DEF TypeOK
<1>6. Kept(c, s, n + 1) = Kept(c, s, n)
  BY <1>2, <1>3, <1>4, <1>5, KeptStep
<1>8. Cardinality(Met(c, s, n + 1)) = total'[c]
  BY <1>4, <1>5, MetCount
<1>9. Visited(c, s, n + 1) = dead'
  <2>3. (n + 1) + 1 = n + 2
    OBVIOUS
  <2> QED BY <1>3, <1>6, <2>3 DEF Visited
<1>a. left'[c] <= Len(s)
  BY <1>2, <1>3, <1>4
<1>b. Limit[c] > 0 => total'[c] <= Limit[c]
  BY <1>3, <1>5
<1>10. left'[c] <= Len(s) /\ (n + 1) - 1 = n /\ (Limit[c] > 0 => total'[c] <= Limit[c])
  BY <1>a, <1>b
<1> QED BY <1>3, <1>4, <1>6, <1>8, <1>9, <1>10 DEF Under

\* The command measures the list.
LEMMA BeginUnder ==
  ASSUME TypeOK, NEW c \in Command, PassOk(c), Begin(c)
  PROVE  Under(c)'
<1>1. /\ dead \in Seq(Id) /\ dead' = dead /\ total' = total /\ total[c] = 0
      /\ left'[c] = Len(dead) /\ entry'[c] = dead /\ pc'[c] = "loop" /\ Limit[c] \in Nat
  BY LimitAssumption DEF TypeOK, PassOk, Begin, Goto, redisVars
<1>2. PICK m \in Nat : m = Len(dead)
  BY <1>1
<1>3. Seen(c)' = 0
  <2>1. Seen(c)' = Len(entry'[c]) - left'[c]
    BY DEF Seen
  <2> QED BY <1>1, <1>2, <2>1
<1>4. Cardinality(Met(c, dead, 0)) = 0 /\ Kept(c, dead, 0) = <<>> /\ Visited(c, dead, 0) = dead
  BY <1>1, NothingVisited
<1>5. <<>> \in Seq(Id) /\ 1..(0 - 1) = {} /\ m <= m /\ 0 <= Limit[c]
  BY <1>1
<1> QED BY <1>1, <1>2, <1>3, <1>4, <1>5 DEF Under

\* A pass ends where Stops says.
LEMMA FinishStops ==
  ASSUME TypeOK, NEW c \in Command, Under(c), Finish(c)
  PROVE  dead' = Visited(c, entry'[c], Stops(c, entry'[c]))
<1>1. /\ dead' = dead /\ entry' = entry /\ pc[c] = "loop" /\ Finished(c)
  BY DEF Finish, redisVars, histVars
<1>2. /\ left[c] \in Nat /\ total[c] \in Nat /\ entry[c] \in Seq(Id) /\ Limit[c] \in Nat
  BY LimitAssumption DEF TypeOK
<1>3. PICK s \in Seq(Id), m \in Nat, n \in Int : s = entry[c] /\ m = Len(s) /\ n = m - left[c]
  BY <1>2
<1>4. Seen(c) = n
  BY <1>3 DEF Seen
<1>5. /\ left[c] <= m /\ Kept(c, s, n) \in Seq(Id) /\ total[c] = Cardinality(Met(c, s, n))
      /\ Limit[c] > 0 => total[c] <= Limit[c]
      /\ Limit[c] > 0 => \A k \in 1..(n - 1) : Cardinality(Met(c, s, k)) < Limit[c]
      /\ Visited(c, s, n) = dead
  BY <1>1, <1>3, <1>4 DEF Under
<1>6. n \in 0..m /\ n \in Nat
  BY <1>2, <1>3, <1>5
<1>7. n = m \/ n \in Reached(c, s)
  <2>1. CASE left[c] = 0
    BY <1>3, <2>1
  <2>2. CASE Limit[c] > 0 /\ total[c] >= Limit[c]
    <3>1. total[c] = Limit[c]
      BY <1>2, <1>5, <2>2
    <3>a. Cardinality(Met(c, s, 0)) = 0
      BY NothingVisited
    <3>b. Cardinality(Met(c, s, n)) # 0
      BY <1>2, <1>5, <2>2, <3>1
    <3>2. n # 0
      BY <3>a, <3>b
    <3>3. n \in 1..Len(s)
      BY <1>3, <1>6, <3>2
    <3> QED BY <1>5, <2>2, <3>1, <3>3 DEF Reached
  <2>3. CASE dead = <<>>
    <3>1. ASSUME n < m PROVE FALSE
      <4>1. PICK K \in Seq(Id), k \in Nat : K = Kept(c, s, n) /\ k = n
        BY <1>5, <1>6
      <4>2. k < Len(s)
        BY <1>3, <3>1, <4>1
      <4>3. SubSeq(s, k + 1, Len(s)) \o K # <<>>
        BY <4>2, VisitedHead
      <4>4. Visited(c, s, n) = SubSeq(s, k + 1, Len(s)) \o K
        BY <4>1 DEF Visited
      <4> QED BY <1>5, <2>3, <4>3, <4>4
    <3> QED BY <1>3, <1>6, <3>1
  <2> QED BY <1>1, <2>1, <2>2, <2>3 DEF Finished
<1>8. Stops(c, s) = n
  <2>1. n \in 0..Len(s) /\ (n = Len(s) \/ n \in Reached(c, s))
    BY <1>3, <1>6, <1>7
  <2> QED BY <1>5, <2>1, StopsAt
<1> QED BY <1>1, <1>3, <1>5, <1>8

\* The end of a turn that changes no count: the list is what it should be.
LEMMA TurnEnds ==
  ASSUME NEW c \in Command, Under(c), pc'[c] = "loop",
         left' = left, total' = total, entry' = entry,
         dead' = IF pc[c] = "rotate" THEN Append(dead, hand[c]) ELSE dead
  PROVE  Under(c)'
<1>1. Seen(c)' = Seen(c)
  BY DEF Seen
<1> QED BY <1>1 DEF Under

\* A command's own step keeps its pass on course, or spoils its calm.
LEMMA OwnStep ==
  ASSUME TypeOK, TypeOK', NEW c \in Command, PassOk(c), CommandStep(c)
  PROVE  PassOk(c)'
<1>1. calm'[c] \in BOOLEAN /\ pc'[c] \in PC
  BY DEF TypeOK
<1>2. ASSUME Disturbs(c), calm'[c] = TRUE PROVE calm[c] = TRUE
  <2>1. calm'[c] = (c = c /\ calm[c]) /\ calm[c] \in BOOLEAN
    BY <1>2 DEF Disturbs, TypeOK
  <2> QED BY <1>2, <2>1
<1>3. ASSUME pc'[c] \in InPass, calm'[c] = TRUE => Under(c)' PROVE PassOk(c)'
  BY <1>3 DEF PassOk, InPass
<1>4. calm[c] = TRUE /\ pc[c] \in InPass => Under(c)
  BY DEF PassOk
<1>t. pc \in [Command -> PC] /\ calm \in [Command -> BOOLEAN]
  BY DEF TypeOK
<1>5. CASE Begin(c)
  <2>1. pc'[c] = "loop"
    BY <1>5, <1>t DEF Begin, Goto
  <2> QED BY <1>3, <1>5, <2>1, BeginUnder DEF InPass
<1>6. CASE Finish(c)
  <2>1. pc[c] = "loop" /\ pc'[c] = "done" /\ calm' = calm
    BY <1>6, <1>t DEF Finish, Goto, histVars
  <2>2. calm'[c] = TRUE => dead' = Visited(c, entry'[c], Stops(c, entry'[c]))
    BY <1>4, <1>6, <2>1, FinishStops DEF InPass
  <2> QED BY <2>1, <2>2 DEF PassOk, InPass
<1>7. CASE PopOther(c)
  <2>1. pc[c] = "loop" /\ pc'[c] = "rotate" /\ Disturbs(c)
    BY <1>7, <1>t DEF PopOther, Turn, Goto
  <2>2. calm'[c] = TRUE => Under(c)'
    BY <1>2, <1>4, <1>7, <2>1, PopOtherUnder DEF InPass
  <2> QED BY <1>3, <2>1, <2>2 DEF InPass
<1>8. CASE PopDiscard(c)
  <2>1. pc[c] = "loop" /\ pc'[c] = "loop" /\ Disturbs(c)
    BY <1>8, <1>t DEF PopDiscard, Turn
  <2>2. Turn(c) /\ Head(dead) \in Matching[c] /\ total' = [total EXCEPT ![c] = @ + 1]
    BY <1>8 DEF PopDiscard
  <2>3. calm'[c] = TRUE => Under(c)'
    BY <1>2, <1>4, <2>1, <2>2, PopMatchUnder DEF InPass
  <2> QED BY <1>3, <2>1, <2>3 DEF InPass
<1>9. CASE PopReplay(c)
  <2>1. pc[c] = "loop" /\ pc'[c] = "replay" /\ Disturbs(c)
    BY <1>9, <1>t DEF PopReplay, Turn, Goto
  <2>2. Turn(c) /\ Head(dead) \in Matching[c] /\ total' = [total EXCEPT ![c] = @ + 1]
    BY <1>9 DEF PopReplay
  <2>3. calm'[c] = TRUE => Under(c)'
    BY <1>2, <1>4, <2>1, <2>2, PopMatchUnder DEF InPass
  <2> QED BY <1>3, <2>1, <2>3 DEF InPass
<1>10. CASE Rotate(c)
  <2>1. pc[c] = "rotate" /\ pc'[c] = "loop" /\ Disturbs(c)
    BY <1>10, <1>t DEF Rotate, Goto
  <2>2. dead' = Append(dead, hand[c]) /\ left' = left /\ total' = total /\ entry' = entry
    BY <1>10 DEF Rotate, RpushDead
  <2>3. calm'[c] = TRUE => Under(c)'
    BY <1>2, <1>4, <2>1, <2>2, TurnEnds DEF InPass
  <2> QED BY <1>3, <2>1, <2>3 DEF InPass
<1>11. CASE Replay(c)
  <2>1. pc[c] = "replay" /\ pc'[c] = "loop" /\ calm' = calm
    BY <1>11, <1>t DEF Replay, Goto, histVars
  <2>2. dead' = dead /\ left' = left /\ total' = total /\ entry' = entry
    BY <1>11 DEF Replay, histVars
  <2>3. calm'[c] = TRUE => Under(c)'
    BY <1>4, <2>1, <2>2, TurnEnds DEF InPass
  <2> QED BY <1>3, <2>1, <2>3 DEF InPass
<1>12. CASE ReplayFails(c)
  <2>1. pc'[c] = "restore" /\ calm'[c] = FALSE
    BY <1>12, <1>t DEF ReplayFails, Goto
  <2> QED BY <2>1 DEF PassOk
<1>13. CASE Restore(c) \/ RestoreFails(c)
  <2>1. pc[c] = "restore" /\ pc'[c] = "loop" /\ (Disturbs(c) \/ calm' = calm)
    BY <1>13, <1>t DEF Restore, RestoreFails, Goto
  <2>2. calm[c] # TRUE
    BY <2>1 DEF PassOk
  <2>3. calm'[c] # TRUE
    BY <1>2, <2>1, <2>2
  <2> QED BY <1>3, <2>1, <2>3 DEF InPass
<1>14. CASE Raised(c) \/ Killed(c)
  <2>1. pc'[c] = "raised"
    BY <1>14, <1>t DEF Raised, Killed, Goto
  <2> QED BY <2>1 DEF PassOk, InPass
<1> QED BY <1>5, <1>6, <1>7, <1>8, <1>9, <1>10, <1>11, <1>12, <1>13, <1>14 DEF CommandStep

\* Every step keeps every pass on course.
LEMMA PassStep ==
  ASSUME TypeOK, TypeOK', PassInv, [Next]_vars
  PROVE  PassInv'
<1> SUFFICES ASSUME NEW c \in Command PROVE PassOk(c)'
  BY DEF PassInv
<1>1. PassOk(c) /\ calm[c] \in BOOLEAN
  BY DEF PassInv, TypeOK
<1>2. CASE \E i \in Id : Settle(i)
  <2>1. Apart(c)
    BY <1>1, <1>2 DEF Settle, commandVars, Apart
  <2> QED BY <1>1, <2>1, ApartKeeps
<1>3. CASE \E i \in Id : Bury(i)
  <2>1. calm' = [d \in Command |-> FALSE] /\ entry' = entry
        /\ pc' = pc /\ left' = left /\ total' = total /\ hand' = hand
    BY <1>3 DEF Bury, commandVars
  <2>2. Apart(c)
    BY <2>1 DEF Apart
  <2> QED BY <1>1, <2>2, ApartKeeps
<1>4. ASSUME NEW d \in Command, CommandStep(d) PROVE PassOk(c)'
  <2>1. CASE c = d
    BY <1>1, <1>4, <2>1, OwnStep
  <2>2. CASE c # d
    <3>1. Apart(c)
      BY <1>4, <2>2, OthersApart
    <3> QED BY <1>1, <3>1, ApartKeeps
  <2> QED BY <2>1, <2>2
<1>5. CASE UNCHANGED vars
  <2>1. Apart(c)
    BY <1>1, <1>5 DEF vars, redisVars, commandVars, histVars, Apart
  <2> QED BY <1>1, <2>1, ApartKeeps
<1> QED BY <1>2, <1>3, <1>4, <1>5 DEF Next

\* A command that had job:dead to itself has visited every message of the list
\* it measured once, up to its limit, taken out exactly the ones its filters
\* select and left the others in their order (replay.py's loop), for every list,
\* filter and limit.
THEOREM UndisturbedPass == Spec => []PassResult
<1>1. Init => PassInv
  BY DEF Init, PassInv, PassOk, InPass
<1>2. TypeOK /\ TypeOK' /\ PassInv /\ [Next]_vars => PassInv'
  BY PassStep
<1>3. TypeOK /\ PassInv => PassResult
  BY DEF TypeOK, PassInv, PassOk, PassResult
<1> QED BY <1>1, <1>2, <1>3, TypeCorrect, PTL DEF Spec
=============================================================================
