--------------------------- MODULE SithCommProofs ---------------------------
(***************************************************************************)
(* What holds of acknowledged messages for every number of players, slots, *)
(* pairs, tries and ids: types, that one slot is all a player has, that a  *)
(* taken slot is counted; and, from what links packets, slots and the      *)
(* table of pairs to the messages handled, that none is handed over twice  *)
(* within a turn of the table and that answers are true.                   *)
(***************************************************************************)
EXTENDS SithComm, FiniteSetTheorems, SequenceTheorems, TLAPS

\* The last two together are inductive, in a form without sizes of sets.
SlotInv ==
  /\ OnlyFirstSlot
  /\ \A p \in Players : used[p] >= 0 /\ (buf[p][0].id # NoId => used[p] >= 1)

CommInv == TypeOK /\ SlotInv

-----------------------------------------------------------------------------

\* With all but the first slot free, the search ends at the first or the second one.
LEMMA FirstFreeIsNear ==
  ASSUME NEW b \in [Slots -> Entry], \A s \in Slots \ {0} : b[s] = Empty
  PROVE  FirstFree(b) \in {0, 1} /\ FirstFree(b) # NumSlots
<1> DEFINE Ends(f) == (f = NumSlots \/ b[f].id = NoId) /\ \A s \in 0 .. f - 1 : b[s].id # NoId
<1>1. 0 \in Slots /\ 1 \in Slots \ {0} /\ NumSlots > 1 /\ NumSlots \in Nat
  BY SlotsAssumption DEF Slots
<1>2. b[1].id = NoId
  BY <1>1 DEF Empty
<1>3. \E f \in 0 .. NumSlots : Ends(f)
  <2>1. CASE b[0].id = NoId
    BY <2>1, <1>1
  <2>2. CASE b[0].id # NoId
    BY <2>2, <1>1, <1>2
  <2> QED BY <2>1, <2>2
<1>4. FirstFree(b) \in 0 .. NumSlots /\ Ends(FirstFree(b))
  BY <1>3 DEF FirstFree
<1>5. ~(1 \in 0 .. FirstFree(b) - 1)
  BY <1>4, <1>2
<1> QED BY <1>1, <1>4, <1>5

LEMMA OldestIsFirst ==
  ASSUME NEW b \in [Slots -> Entry], \A s \in Slots \ {0} : b[s] = Empty
  PROVE  Oldest(b) = {0}
<1>1. FirstFree(b) \in {0, 1}
  BY FirstFreeIsNear
<1>2. 0 .. FirstFree(b) - 1 \subseteq {0}
  BY <1>1
<1> QED BY <1>2 DEF Oldest

\* In every state the inductive form gives the one about the number of taken slots.
LEMMA SlotsCounted == CommInv => WaitingIsCounted
<1> SUFFICES ASSUME CommInv, NEW p \in Players
             PROVE  used[p] >= Cardinality({s \in Slots : buf[p][s].id # NoId})
  BY DEF WaitingIsCounted
<1> DEFINE T == {s \in Slots : buf[p][s].id # NoId}
<1>1. T \subseteq {0}
  BY DEF CommInv, SlotInv, OnlyFirstSlot, Empty
<1>2. used[p] \in Int /\ used[p] >= 0
  BY DEF CommInv, TypeOK, SlotInv
<1>3. CASE T = {}
  <2>1. Cardinality(T) = 0
    BY <1>3, FS_EmptySet
  <2> QED BY <2>1, <1>2
<1>4. CASE T = {0}
  <2>1. Cardinality(T) = 1
    BY <1>4, FS_Singleton
  <2>2. buf[p][0].id # NoId
    BY <1>4
  <2>3. used[p] >= 1
    BY <2>2 DEF CommInv, SlotInv
  <2> QED BY <2>1, <2>3
<1> QED BY <1>1, <1>3, <1>4

-----------------------------------------------------------------------------
(* Types of the parts the actions are made of.                             *)

Net == [Players \X Players -> Seq(Packet)]

LEMMA PutType ==
  ASSUME NEW n \in Net, NEW p \in Players, NEW S, NEW k \in Packet
  PROVE  Put(n, p, S, k) \in Net
<1>1. ASSUME NEW w \in Players \X Players
      PROVE  (IF w[1] = p /\ w[2] \in S /\ w[2] \in up /\ Len(n[w]) < MaxNet
                THEN Append(n[w], k) ELSE n[w]) \in Seq(Packet)
  <2>1. n[w] \in Seq(Packet)
    BY DEF Net
  <2>2. Append(n[w], k) \in Seq(Packet)
    BY <2>1
  <2> QED BY <2>1, <2>2
<1> QED BY <1>1 DEF Put, Net

LEMMA TakenType ==
  ASSUME net \in Net, NEW p \in Players, NEW q \in Players, net[<<p, q>>] # <<>>
  PROVE  Taken(q, p) \in Net /\ Head(net[<<p, q>>]) \in Packet
<1>1. net[<<p, q>>] \in Seq(Packet)
  BY DEF Net
<1>2. Tail(net[<<p, q>>]) \in Seq(Packet) /\ Head(net[<<p, q>>]) \in Packet
  BY <1>1
<1> QED BY <1>2 DEF Taken, Net

LEMMA IdTypes ==
  /\ 1 \in Ids /\ NoId \notin Ids /\ 0 \in Slots
  /\ \A id \in Ids \cup {NoId} : (id + 1) % (2 * HalfIds) \in Ids \cup {NoId}
<1>1. HalfIds \in Nat \ {0} /\ NumSlots \in Nat /\ NumSlots > 1
  BY SizesAssumption, SlotsAssumption
<1>2. ASSUME NEW id \in Ids \cup {NoId} PROVE (id + 1) % (2 * HalfIds) \in Ids \cup {NoId}
  <2>1. id + 1 \in Nat /\ 2 * HalfIds \in Nat \ {0}
    BY <1>1 DEF Ids, NoId
  <2>2. (id + 1) % (2 * HalfIds) \in 0 .. 2 * HalfIds - 1
    BY <2>1
  <2> QED BY <2>2, <1>1 DEF Ids, NoId
<1> QED BY <1>1, <1>2 DEF Ids, NoId, Slots

\* A slot looked at again keeps its type as long as its tries last.
LEMMA AgainType ==
  ASSUME BufOK, NEW p \in Players, NEW s \in Slots
  PROVE  LET e == Again(p, buf[p][s])
         IN  /\ e.id = buf[p][s].id /\ e.id \in Ids \cup {NoId} /\ e.msg = buf[p][s].msg /\ e.msg \in 0 .. MaxMsgs
             /\ (~Spent(e) => e \in Entry)
<1>1. buf[p][s] \in Entry
  BY DEF BufOK
<1>2. MaxTries \in Nat \ {0}
  BY SizesAssumption
<1> QED BY <1>1, <1>2 DEF Again, Spent, Entry

LEMMA EmptyType == Empty \in Entry
  BY SizesAssumption DEF Empty, Entry

-----------------------------------------------------------------------------
(* One lemma for each action.                                              *)

\* An action that leaves the slots and their count alone need only show the types.
LEMMA SlotsUnchanged ==
  ASSUME CommInv, TypeOK', UNCHANGED <<buf, used>>
  PROVE  CommInv'
<1>1. OnlyFirstSlot'
  BY DEF CommInv, SlotInv, OnlyFirstSlot
<1>2. (\A p \in Players : used[p] >= 0 /\ (buf[p][0].id # NoId => used[p] >= 1))'
  BY DEF CommInv, SlotInv
<1> QED BY <1>1, <1>2 DEF CommInv, SlotInv

\* One slot of one player is written: the first, and the count goes with it.
LEMMA SlotWritten ==
  ASSUME CommInv, TypeOK', NEW p \in Players, NEW e, NEW c \in Int,
         buf' = [buf EXCEPT ![p][0] = e], used' = [used EXCEPT ![p] = c],
         c >= 0, e.id # NoId => c >= 1
  PROVE  CommInv'
<1>1. buf \in [Players -> [Slots -> Entry]] /\ used \in [Players -> Int] /\ 0 \in Slots
  BY IdTypes DEF CommInv, TypeOK, BufOK
<1>2. buf'[p][0] = e /\ used'[p] = c
  BY <1>1
<1>3. \A q \in Players \ {p} : buf'[q] = buf[q] /\ used'[q] = used[q]
  BY <1>1
<1>4. \A s \in Slots \ {0} : buf'[p][s] = buf[p][s]
  BY <1>1
<1>5. OnlyFirstSlot'
  <2> SUFFICES ASSUME NEW q \in Players, NEW s \in Slots \ {0} PROVE buf'[q][s] = Empty
    BY DEF OnlyFirstSlot
  <2>1. buf[q][s] = Empty
    BY DEF CommInv, SlotInv, OnlyFirstSlot
  <2> QED BY <2>1, <1>3, <1>4
<1>6. (\A q \in Players : used[q] >= 0 /\ (buf[q][0].id # NoId => used[q] >= 1))'
  <2> SUFFICES ASSUME NEW q \in Players
               PROVE  used'[q] >= 0 /\ (buf'[q][0].id # NoId => used'[q] >= 1)
    OBVIOUS
  <2>1. used[q] >= 0 /\ (buf[q][0].id # NoId => used[q] >= 1)
    BY DEF CommInv, SlotInv
  <2> QED BY <2>1, <1>2, <1>3
<1> QED BY <1>5, <1>6 DEF CommInv, SlotInv

LEMMA SendStep ==
  ASSUME CommInv, NEW p \in Players, NEW to, Send(p, to)
  PROVE  CommInv'
<1> DEFINE id == IF nextId[p] = NoId THEN 1 ELSE nextId[p]
           e  == [id |-> id, owed |-> Owed(p, to), tries |-> 0, msg |-> Len(sends) + 1]
<1>1. TypeOK /\ BufOK
  BY DEF CommInv, TypeOK
<1>2. id \in Ids /\ id \in Ids \cup {NoId}
  BY <1>1, IdTypes DEF TypeOK
<1>3. Len(sends) \in Nat /\ Len(sends) + 1 <= MaxMsgs
  BY <1>1, SizesAssumption DEF TypeOK, Send
<1>4. e \in Entry
  <2>1. Owed(p, to) \in SUBSET Players
    BY DEF Owed
  <2>2. Len(sends) + 1 \in 0 .. MaxMsgs /\ 0 \in 0 .. MaxTries - 1
    BY <1>3, SizesAssumption
  <2> QED BY <2>1, <2>2, <1>2 DEF Entry
<1>5. Message(e) \in Packet
  BY <1>2, <1>3, SizesAssumption DEF Message, Packet
<1>6. buf[p] \in [Slots -> Entry] /\ \A s \in Slots \ {0} : buf[p][s] = Empty
  BY <1>1 DEF BufOK, CommInv, SlotInv, OnlyFirstSlot
<1>7. Oldest(buf[p]) = {0} /\ FirstFree(buf[p]) # NumSlots
  BY <1>6, OldestIsFirst, FirstFreeIsNear
<1>8. nextId' \in [Players -> Ids \cup {NoId}]
  <2>1. nextId' = [nextId EXCEPT ![p] = (id + 1) % (2 * HalfIds)]
    BY DEF Send
  <2>2. (id + 1) % (2 * HalfIds) \in Ids \cup {NoId}
    BY <1>2, IdTypes
  <2> QED BY <2>1, <2>2, <1>1 DEF TypeOK
<1>9. sends' \in Seq([from : Players, id : Ids]) /\ Len(sends') <= MaxMsgs
  <2>1. sends' = Append(sends, [from |-> p, id |-> id])
    BY DEF Send
  <2>2. [from |-> p, id |-> id] \in [from : Players, id : Ids]
    BY <1>2
  <2>3. sends \in Seq([from : Players, id : Ids])
    BY <1>1 DEF TypeOK
  <2> HIDE DEF id
  <2>4. Len(sends') = Len(sends) + 1 /\ sends' \in Seq([from : Players, id : Ids])
    BY <2>1, <2>2, <2>3
  <2> QED BY <2>4, <1>3
<1>10. UNCHANGED <<pairs, at, knows, up, joins, handled>>
  BY DEF Send, netVars
<1>11. CASE UNCHANGED <<buf, used, net>>
  <2>1. TypeOK'
    BY <1>1, <1>8, <1>9, <1>10, <1>11 DEF TypeOK, BufOK
  <2> QED BY <2>1, <1>11, SlotsUnchanged
<1>12. CASE /\ buf' = [buf EXCEPT ![p][0] = e] /\ used' = [used EXCEPT ![p] = @ + 1]
            /\ net' = Put(net, p, Recipients(p, to), Message(e))
  <2> HIDE DEF e
  <2>1. net' \in Net
    <3>1. net \in Net
      BY <1>1 DEF TypeOK, Net
    <3> QED BY <3>1, <1>5, <1>12, PutType
  <2>2. BufOK'
    BY <1>1, <1>4, <1>12 DEF BufOK
  <2>3. used[p] \in Int /\ used[p] >= 0 /\ used' = [used EXCEPT ![p] = used[p] + 1]
    BY <1>1, <1>12 DEF TypeOK, CommInv, SlotInv
  <2>4. used' \in [Players -> Int]
    BY <2>3, <1>1 DEF TypeOK
  <2>5. TypeOK'
    BY <2>1, <2>2, <2>4, <1>1, <1>8, <1>9, <1>10 DEF TypeOK, Net
  <2>6. used[p] + 1 \in Int /\ used[p] + 1 >= 1 /\ used[p] + 1 >= 0
    BY <2>3
  <2>7. buf' = [buf EXCEPT ![p][0] = e]
    BY <1>12
  <2> QED BY <2>3, <2>5, <2>6, <2>7, SlotWritten
<1>13. \/ UNCHANGED <<buf, used, net>>
       \/ /\ buf' = [buf EXCEPT ![p][0] = e] /\ used' = [used EXCEPT ![p] = @ + 1]
          /\ net' = Put(net, p, Recipients(p, to), Message(e))
  BY <1>7 DEF Send
<1> QED BY <1>11, <1>12, <1>13

LEMMA RetryStep ==
  ASSUME CommInv, NEW p \in Players, NEW s \in Slots, Retry(p, s)
  PROVE  CommInv'
<1> DEFINE e == Again(p, buf[p][s])
           r == IF Spent(e) THEN Empty ELSE e
<1>1. TypeOK /\ BufOK /\ used[p] \in Int
  BY DEF CommInv, TypeOK
<1>2. s = 0
  BY DEF CommInv, SlotInv, OnlyFirstSlot, Empty, Retry
<1>3. e.id \in Ids /\ e.id = buf[p][s].id /\ e.msg \in 0 .. MaxMsgs /\ r \in Entry
  BY <1>1, AgainType, EmptyType DEF Retry
<1>4. Message(e) \in Packet
  BY <1>3 DEF Message, Packet
<1>5. net' \in Net
  <2>1. net' = Put(net, p, e.owed, Message(e)) /\ net \in Net
    BY <1>1 DEF Retry, TypeOK, Net
  <2> QED BY <2>1, <1>4, PutType
<1>6. buf' = [buf EXCEPT ![p][0] = r]
  BY <1>2 DEF Retry
<1>7. used' = [used EXCEPT ![p] = Counted(p, Spent(e))] /\ Counted(p, Spent(e)) \in Int
  BY <1>1 DEF Retry, Counted
<1>8. TypeOK'
  <2>1. BufOK'
    BY <1>1, <1>3, <1>6, IdTypes DEF BufOK
  <2>2. used' \in [Players -> Int]
    BY <1>1, <1>7 DEF TypeOK
  <2> QED BY <2>1, <2>2, <1>1, <1>5 DEF TypeOK, Net, Retry, netVars
<1>9. used[p] >= 1
  BY <1>2, <1>3, IdTypes DEF CommInv, SlotInv
<1>10. Counted(p, Spent(e)) >= 0 /\ (r.id # NoId => Counted(p, Spent(e)) >= 1)
  BY <1>1, <1>9 DEF Counted, Empty
<1> HIDE DEF r
<1> QED BY <1>6, <1>7, <1>8, <1>10, SlotWritten

LEMMA ReceiveMessageStep ==
  ASSUME CommInv, NEW q \in Players, NEW p \in Players, ReceiveMessage(q, p)
  PROVE  CommInv'
<1>1. TypeOK /\ net \in Net
  BY DEF CommInv, TypeOK, Net
<1>2. PICK k : /\ k \in {Head(w) : w \in {net[<<p, q>>]} \ {<<>>}} /\ k.kind = "message"
               /\ net' = Put(Taken(q, p), q, {p}, [kind |-> "answer", id |-> k.id, msg |-> 0])
               /\ \/ UNCHANGED <<pairs, at, handled>>
                  \/ /\ pairs' = [pairs EXCEPT ![q][at[q]] = [from |-> p, id |-> k.id]]
                     /\ at' = [at EXCEPT ![q] = (@ + 1) % NumPairs]
                     /\ handled' = [handled EXCEPT ![q] = Append(@, k.msg)]
  BY DEF ReceiveMessage, Welcome
<1>3. net[<<p, q>>] # <<>> /\ k = Head(net[<<p, q>>])
  BY <1>2
<1>4. Taken(q, p) \in Net /\ k \in Packet
  BY <1>1, <1>3, TakenType
<1>5. [kind |-> "answer", id |-> k.id, msg |-> 0] \in Packet /\ k.id \in Ids /\ k.msg \in 0 .. MaxMsgs
  BY <1>4, SizesAssumption DEF Packet
<1>6. net' \in Net
  BY <1>2, <1>4, <1>5, PutType
<1>7. UNCHANGED <<nextId, buf, used, knows, up, joins, sends>>
  BY DEF ReceiveMessage, netVars
<1>8. /\ pairs' \in [Players -> [0 .. NumPairs - 1 -> Pair]]
      /\ at' \in [Players -> 0 .. NumPairs - 1]
      /\ handled' \in [Players -> Seq(0 .. MaxMsgs)]
  <2>1. CASE UNCHANGED <<pairs, at, handled>>
    BY <2>1, <1>1 DEF TypeOK
  <2>2. CASE /\ pairs' = [pairs EXCEPT ![q][at[q]] = [from |-> p, id |-> k.id]]
             /\ at' = [at EXCEPT ![q] = (@ + 1) % NumPairs]
             /\ handled' = [handled EXCEPT ![q] = Append(@, k.msg)]
    <3>1. [from |-> p, id |-> k.id] \in Pair
      BY <1>5 DEF Pair
    <3>2. pairs' \in [Players -> [0 .. NumPairs - 1 -> Pair]]
      BY <3>1, <2>2, <1>1 DEF TypeOK
    <3>3. at' \in [Players -> 0 .. NumPairs - 1]
      <4>1. NumPairs \in Nat \ {0} /\ at[q] + 1 \in Nat
        BY <1>1, SizesAssumption DEF TypeOK
      <4>2. (at[q] + 1) % NumPairs \in 0 .. NumPairs - 1
        BY <4>1
      <4> QED BY <4>2, <2>2, <1>1 DEF TypeOK
    <3>4. handled' \in [Players -> Seq(0 .. MaxMsgs)]
      <4>1. handled[q] \in Seq(0 .. MaxMsgs)
        BY <1>1 DEF TypeOK
      <4>2. Append(handled[q], k.msg) \in Seq(0 .. MaxMsgs)
        BY <4>1, <1>5
      <4> QED BY <4>2, <2>2, <1>1 DEF TypeOK
    <3> QED BY <3>2, <3>3, <3>4
  <2> QED BY <2>1, <2>2, <1>2
<1>9. TypeOK'
  BY <1>1, <1>6, <1>7, <1>8 DEF TypeOK, BufOK, Net
<1> QED BY <1>7, <1>9, SlotsUnchanged

LEMMA TakenStep ==
  ASSUME CommInv, NEW q \in Players, NEW p \in Players, net[<<p, q>>] # <<>>, net' = Taken(q, p),
         UNCHANGED <<nextId, buf, used, pairs, at, netVars, sends, handled>>
  PROVE  CommInv'
<1>1. TypeOK /\ net \in Net
  BY DEF CommInv, TypeOK, Net
<1>2. net' \in Net
  BY <1>1, TakenType
<1>3. TypeOK'
  BY <1>1, <1>2 DEF TypeOK, BufOK, Net, netVars
<1> QED BY <1>3, SlotsUnchanged

LEMMA ReceiveAnswerStep ==
  ASSUME CommInv, NEW p \in Players, NEW q \in Players, ReceiveAnswer(p, q)
  PROVE  CommInv'
<1>1. TypeOK /\ BufOK /\ net \in Net /\ used[p] \in Int
  BY DEF CommInv, TypeOK, Net
<1>2. PICK k \in {Head(w) : w \in {net[<<q, p>>]} \ {<<>>}} :
        /\ net' = Taken(p, q)
        /\ LET S    == Answered(p, q, k.id)
               b    == [s \in Slots |-> IF s \in S THEN [buf[p][s] EXCEPT !.owed = @ \ (knows[p] \cap {q})]
                                        ELSE buf[p][s]]
               done == {s \in S : b[s].owed = {}}
           IN  /\ buf' = [buf EXCEPT ![p] = [s \in Slots |-> IF s \in done THEN Empty ELSE b[s]]]
               /\ used' = [used EXCEPT ![p] = Counted(p, done # {})]
  BY DEF ReceiveAnswer
<1> DEFINE S == Answered(p, q, k.id)
           b == [s \in Slots |-> IF s \in S THEN [buf[p][s] EXCEPT !.owed = @ \ (knows[p] \cap {q})]
                                 ELSE buf[p][s]]
           done == {s \in S : b[s].owed = {}}
           r == [s \in Slots |-> IF s \in done THEN Empty ELSE b[s]]
<1>3. net[<<q, p>>] # <<>> /\ k = Head(net[<<q, p>>])
  BY <1>2
<1>4. net' \in Net /\ k \in Packet
  BY <1>1, <1>2, <1>3, TakenType
<1>5. k.id \in Ids
  BY <1>4 DEF Packet
<1>6. S \subseteq {0}
  BY <1>5, IdTypes DEF Answered, CommInv, SlotInv, OnlyFirstSlot, Empty
<1>7. \A s \in S : buf[p][s].id # NoId
  BY <1>5, IdTypes DEF Answered
<1>8. \A s \in Slots : b[s] \in Entry
  <2> SUFFICES ASSUME NEW s \in Slots PROVE b[s] \in Entry
    OBVIOUS
  <2>1. buf[p][s] \in Entry
    BY <1>1 DEF BufOK
  <2> QED BY <2>1 DEF Entry
<1>9. r \in [Slots -> Entry]
  BY <1>8, EmptyType
<1>10. buf' = [buf EXCEPT ![p] = r] /\ used' = [used EXCEPT ![p] = Counted(p, done # {})]
  BY <1>2
<1>11. UNCHANGED <<nextId, pairs, at, knows, up, joins, sends, handled>>
  BY DEF ReceiveAnswer, netVars
<1>12. Counted(p, done # {}) \in Int
  BY <1>1 DEF Counted
<1>13. TypeOK'
  <2> HIDE DEF r
  <2>1. BufOK'
    BY <1>1, <1>9, <1>10 DEF BufOK
  <2>2. used' \in [Players -> Int]
    BY <1>1, <1>10, <1>12 DEF TypeOK
  <2> QED BY <2>1, <2>2, <1>1, <1>4, <1>11 DEF TypeOK, Net
<1>14. \A s \in Slots \ {0} : r[s] = Empty
  BY <1>6 DEF CommInv, SlotInv, OnlyFirstSlot
<1>15. Counted(p, done # {}) >= 0 /\ (r[0].id # NoId => Counted(p, done # {}) >= 1)
  <2>1. used[p] >= 0 /\ (buf[p][0].id # NoId => used[p] >= 1)
    BY DEF CommInv, SlotInv
  <2>2. CASE done = {}
    <3>1. r[0].id = buf[p][0].id
      <4>1. 0 \in Slots /\ r[0] = b[0] /\ buf[p][0] \in Entry
        BY <2>2, <1>1, IdTypes DEF BufOK
      <4> QED BY <4>1 DEF Entry
    <3> QED BY <3>1, <2>1, <2>2 DEF Counted
  <2>3. CASE done # {}
    <3>1. 0 \in done /\ buf[p][0].id # NoId
      BY <2>3, <1>6, <1>7
    <3>2. r[0] = Empty
      BY <3>1, IdTypes
    <3> HIDE DEF r, done
    <3>3. r[0].id = NoId
      BY ONLY <3>2 DEF Empty
    <3>4. Counted(p, done # {}) = used[p] - 1
      BY ONLY <2>3 DEF Counted
    <3>5. used[p] \in Int /\ used[p] >= 1
      BY <3>1, <2>1, <1>1
    <3> QED BY ONLY <3>3, <3>4, <3>5
  <2> QED BY <2>2, <2>3
<1> HIDE DEF r, done
<1>16. \A i \in Players : i # p => buf'[i] = buf[i] /\ used'[i] = used[i]
  BY <1>1, <1>10 DEF BufOK, TypeOK
<1>17. buf'[p] = r /\ used'[p] = Counted(p, done # {})
  BY <1>1, <1>10 DEF BufOK, TypeOK
<1>18. OnlyFirstSlot'
  BY <1>14, <1>16, <1>17 DEF OnlyFirstSlot, CommInv, SlotInv
<1>19. (\A i \in Players : used[i] >= 0 /\ (buf[i][0].id # NoId => used[i] >= 1))'
  <2> SUFFICES ASSUME NEW i \in Players
               PROVE  used'[i] >= 0 /\ (buf'[i][0].id # NoId => used'[i] >= 1)
    OBVIOUS
  <2>1. CASE i = p
    BY <2>1, <1>15, <1>17
  <2>2. CASE i # p
    BY <2>2, <1>16 DEF CommInv, SlotInv
  <2> QED BY <2>1, <2>2
<1> QED BY <1>13, <1>18, <1>19 DEF CommInv, SlotInv

LEMMA LeaveStep ==
  ASSUME CommInv, NEW p \in Players, Leave(p)
  PROVE  CommInv'
<1>1. TypeOK
  BY DEF CommInv
<1>2. net' = [w \in Players \X Players |-> IF p \in {w[1], w[2]} THEN <<>> ELSE net[w]]
  BY DEF Leave
<1>3. net' \in [Players \X Players -> Seq(Packet)]
  <2>1. \A w \in Players \X Players : (IF p \in {w[1], w[2]} THEN <<>> ELSE net[w]) \in Seq(Packet)
    BY <1>1 DEF TypeOK
  <2> QED BY <2>1, <1>2
<1>4. TypeOK'
  BY <1>1, <1>3 DEF TypeOK, BufOK, Leave
<1> QED BY <1>4, SlotsUnchanged DEF Leave

LEMMA KnowsStep ==
  ASSUME CommInv, NEW q \in Players, NEW p \in Players, Forget(q, p) \/ Learn(q, p)
  PROVE  CommInv'
<1>1. TypeOK
  BY DEF CommInv
<1>2. knows' \in [Players -> SUBSET Players]
  <2>1. knows[q] \ {p} \in SUBSET Players /\ knows[q] \cup {p} \in SUBSET Players
    BY <1>1 DEF TypeOK
  <2> QED BY <2>1, <1>1 DEF TypeOK, Forget, Learn
<1>3. UNCHANGED <<nextId, buf, used, pairs, at, net, up, joins, sends, handled>>
  BY DEF Forget, Learn
<1>4. TypeOK'
  BY <1>1, <1>2, <1>3 DEF TypeOK, BufOK
<1> QED BY <1>3, <1>4, SlotsUnchanged

LEMMA JoinStep ==
  ASSUME CommInv, NEW p \in Players, Join(p)
  PROVE  CommInv'
<1>1. TypeOK /\ BufOK
  BY DEF CommInv, TypeOK
<1>2. NoMsgs \in [Slots -> Entry] /\ NoPairs \in [0 .. NumPairs - 1 -> Pair]
  BY EmptyType DEF NoMsgs, NoPairs, NoPair, Pair
<1>3. 0 \in 0 .. NumPairs - 1
  BY SizesAssumption
<1>4. /\ nextId' \in [Players -> Ids \cup {NoId}] /\ at' \in [Players -> 0 .. NumPairs - 1]
      /\ pairs' \in [Players -> [0 .. NumPairs - 1 -> Pair]]
      /\ handled' \in [Players -> Seq(0 .. MaxMsgs)]
  <2>1. CASE UNCHANGED <<nextId, pairs, at, handled>>
    BY <2>1, <1>1 DEF TypeOK
  <2>2. CASE /\ nextId' = [nextId EXCEPT ![p] = 1] /\ at' = [at EXCEPT ![p] = 0]
             /\ pairs' = [pairs EXCEPT ![p] = NoPairs] /\ handled' = [handled EXCEPT ![p] = <<>>]
    <3>1. <<>> \in Seq(0 .. MaxMsgs)
      OBVIOUS
    <3> QED BY <3>1, <2>2, <1>1, <1>2, <1>3, IdTypes DEF TypeOK
  <2> QED BY <2>1, <2>2 DEF Join
<1>5. buf' = [buf EXCEPT ![p] = NoMsgs] /\ used' = [used EXCEPT ![p] = 0]
  BY DEF Join
<1>6. BufOK' /\ used' \in [Players -> Int]
  BY <1>1, <1>2, <1>5 DEF BufOK, TypeOK
<1>7. up' \in SUBSET Players /\ knows' \in [Players -> SUBSET Players] /\ joins' \in Nat
  <2>1. up' = up \cup {p} /\ knows' = [knows EXCEPT ![p] = up'] /\ joins' = joins + 1
    BY DEF Join
  <2>2. up' \in SUBSET Players
    BY <2>1, <1>1 DEF TypeOK
  <2> QED BY <2>1, <2>2, <1>1 DEF TypeOK
<1>8. UNCHANGED <<net, sends>>
  BY DEF Join
<1>9. TypeOK'
  BY <1>1, <1>4, <1>6, <1>7, <1>8 DEF TypeOK
<1>10. buf'[p] = NoMsgs /\ used'[p] = 0 /\ \A i \in Players \ {p} : buf'[i] = buf[i] /\ used'[i] = used[i]
  BY <1>1, <1>5 DEF BufOK, TypeOK
<1>11. OnlyFirstSlot'
  BY <1>10 DEF OnlyFirstSlot, CommInv, SlotInv, NoMsgs
<1>12. (\A i \in Players : used[i] >= 0 /\ (buf[i][0].id # NoId => used[i] >= 1))'
  <2> SUFFICES ASSUME NEW i \in Players
               PROVE  used'[i] >= 0 /\ (buf'[i][0].id # NoId => used'[i] >= 1)
    OBVIOUS
  <2>1. CASE i = p
    BY <2>1, <1>10, IdTypes DEF NoMsgs, Empty
  <2>2. CASE i # p
    BY <2>2, <1>10 DEF CommInv, SlotInv
  <2> QED BY <2>1, <2>2
<1> QED BY <1>9, <1>11, <1>12 DEF CommInv, SlotInv

-----------------------------------------------------------------------------

LEMMA InitInv == Init => CommInv
<1> SUFFICES ASSUME Init PROVE CommInv
  OBVIOUS
<1>1. NoMsgs \in [Slots -> Entry] /\ NoPairs \in [0 .. NumPairs - 1 -> Pair]
  BY EmptyType DEF NoMsgs, NoPairs, NoPair, Pair
<1>2. 0 \in 0 .. NumPairs - 1 /\ MaxMsgs \in Nat
  BY SizesAssumption
<1>3. Len(sends) <= MaxMsgs /\ sends \in Seq([from : Players, id : Ids])
  BY <1>2 DEF Init
<1>4. handled \in [Players -> Seq(0 .. MaxMsgs)] /\ net \in [Players \X Players -> Seq(Packet)]
  BY DEF Init
<1>5. TypeOK
  BY <1>1, <1>2, <1>3, <1>4, IdTypes DEF Init, TypeOK, BufOK
<1>6. SlotInv
  BY IdTypes DEF Init, SlotInv, OnlyFirstSlot, NoMsgs, Empty
<1> QED BY <1>5, <1>6 DEF CommInv

LEMMA NextInv == CommInv /\ [Next]_vars => CommInv'
<1> SUFFICES ASSUME CommInv, [Next]_vars PROVE CommInv'
  OBVIOUS
<1>1. CASE UNCHANGED vars
  <2>1. TypeOK'
    BY <1>1 DEF CommInv, TypeOK, BufOK, vars, netVars
  <2> QED BY <2>1, <1>1, SlotsUnchanged DEF vars
<1>2. CASE Next
  <2>1. PICK p \in Players :
          \/ Leave(p) \/ Join(p)
          \/ \E to \in {All} \cup (knows[p] \ {p}) : Send(p, to)
          \/ \E s \in Slots : Retry(p, s)
          \/ \E q \in Players \ {p} :
               \/ ReceiveMessage(q, p) \/ DropMessage(q, p) \/ ReceiveAnswer(p, q)
               \/ Lose(p, q) \/ Forget(q, p) \/ Learn(q, p)
    BY <1>2 DEF Next
  <2>2. CASE Leave(p)
    BY <2>2, LeaveStep
  <2>3. CASE Join(p)
    BY <2>3, JoinStep
  <2>4. CASE \E to \in {All} \cup (knows[p] \ {p}) : Send(p, to)
    BY <2>4, SendStep
  <2>5. CASE \E s \in Slots : Retry(p, s)
    BY <2>5, RetryStep
  <2>6. ASSUME NEW q \in Players,
               ReceiveMessage(q, p) \/ ReceiveAnswer(p, q) \/ Forget(q, p) \/ Learn(q, p)
        PROVE  CommInv'
    BY <2>6, ReceiveMessageStep, ReceiveAnswerStep, KnowsStep
  <2>7. ASSUME NEW q \in Players, DropMessage(q, p) \/ Lose(p, q)
        PROVE  CommInv'
    BY <2>7, TakenStep DEF DropMessage, Lose
  <2> QED BY <2>1, <2>2, <2>3, <2>4, <2>5, <2>6, <2>7
<1> QED BY <1>1, <1>2

-----------------------------------------------------------------------------
(* What links the packets, the slots, the table of pairs and the messages  *)
(* handled.  Each is stated of values (S for sends, h and H for handled),  *)
(* so that a step is argued with the values before and after it.           *)

\* What travels or waits under a message's number is that message.
OfMessage(S, p, e) == e.msg \in DOMAIN S /\ S[e.msg] = [from |-> p, id |-> e.id]

\* Among the handled messages h is one of p with that id.
Took(S, h, p, id) == \E i \in DOMAIN h : h[i] \in DOMAIN S /\ S[h[i]] = [from |-> p, id |-> id]

PacketOK(S, H, w, k) ==
  /\ k.kind = "message" => OfMessage(S, w[1], k)
  /\ k.kind = "answer" => Took(S, H[w[1]], w[2], k.id)

NetOK(n, S, H) == \A w \in Players \X Players : \A i \in DOMAIN n[w] : PacketOK(S, H, w, n[w][i])

BufOf(b, S) == \A p \in Players : \A s \in Slots : b[p][s].id # NoId => OfMessage(S, p, b[p][s])

\* The pair that was replaced d messages ago, when the next one is a.
Back(a, d) == IF d <= a THEN a - d ELSE a - d + NumPairs

\* The table t holds the last NumPairs of the handled messages h, the latest before
\* the pair to be replaced next, and nothing that was not handled.
TableOf(t, a, h, S) ==
  /\ \A i \in DOMAIN h : h[i] \in DOMAIN S
  /\ \A d \in 1 .. NumPairs : d <= Len(h) => t[Back(a, d)] = S[h[Len(h) + 1 - d]]
  /\ \A k \in 0 .. NumPairs - 1 : t[k] = NoPair \/ \E i \in DOMAIN h : t[k] = S[h[i]]

NoneTwice(h) == \A i, j \in DOMAIN h : i < j /\ h[i] = h[j] => j - i > NumPairs

HandledOK(t, a, h, S) == TableOf(t, a, h, S) /\ NoneTwice(h)

\* A player who left has nothing under way in either direction.
AwayOK(n, u) == \A w \in Players \X Players : w[1] \notin u \/ w[2] \notin u => n[w] = <<>>

LinkInv ==
  /\ NetOK(net, sends, handled) /\ BufOf(buf, sends) /\ AwayOK(net, up)
  /\ \A q \in Players : HandledOK(pairs[q], at[q], handled[q], sends)

FullInv == CommInv /\ LinkInv

-----------------------------------------------------------------------------

Sent == [from : Players, id : Ids]

\* What was sent and handled stays so when more is.
LEMMA PacketStays ==
  ASSUME NEW S, NEW T, DOMAIN S \subseteq DOMAIN T, \A m \in DOMAIN S : T[m] = S[m],
         NEW H, NEW K, NEW w, NEW k, PacketOK(S, H, w, k),
         \A i \in DOMAIN H[w[1]] : i \in DOMAIN K[w[1]] /\ K[w[1]][i] = H[w[1]][i]
  PROVE  PacketOK(T, K, w, k)
  BY DEF PacketOK, OfMessage, Took

LEMMA PutOK ==
  ASSUME NEW n \in Net, NEW S, NEW H, NetOK(n, S, H), NEW p \in Players, NEW R, NEW k,
         \A r \in R \cap Players : PacketOK(S, H, <<p, r>>, k)
  PROVE  NetOK(Put(n, p, R, k), S, H)
<1> SUFFICES ASSUME NEW w \in Players \X Players, NEW i \in DOMAIN Put(n, p, R, k)[w]
             PROVE  PacketOK(S, H, w, Put(n, p, R, k)[w][i])
  BY DEF NetOK
<1>1. n[w] \in Seq(Packet) /\ w = <<w[1], w[2]>>
  BY DEF Net
<1>2. CASE w[1] = p /\ w[2] \in R /\ w[2] \in up /\ Len(n[w]) < MaxNet
  <2>1. Put(n, p, R, k)[w] = Append(n[w], k)
    BY <1>2 DEF Put
  <2>2. PacketOK(S, H, w, k)
    BY <1>1, <1>2
  <2>3. i \in DOMAIN n[w] \/ i = Len(n[w]) + 1
    BY <1>1, <2>1
  <2>4. CASE i \in DOMAIN n[w]
    <3>1. Append(n[w], k)[i] = n[w][i]
      BY <1>1, <2>4
    <3> QED BY <2>1, <2>4, <3>1 DEF NetOK
  <2>5. CASE i = Len(n[w]) + 1
    <3>1. Append(n[w], k)[i] = k
      BY <1>1, <2>5
    <3> QED BY <2>1, <2>2, <3>1
  <2> QED BY <2>3, <2>4, <2>5
<1>3. CASE ~(w[1] = p /\ w[2] \in R /\ w[2] \in up /\ Len(n[w]) < MaxNet)
  <2>1. Put(n, p, R, k)[w] = n[w]
    BY <1>3 DEF Put
  <2> QED BY <2>1 DEF NetOK
<1> QED BY <1>2, <1>3

\* Nothing is put on a way to a player who left, nor on one from him unless he sends.
LEMMA PutAway ==
  ASSUME NEW n, AwayOK(n, up), NEW p \in up, NEW R, NEW k
  PROVE  AwayOK(Put(n, p, R, k), up)
  BY DEF AwayOK, Put

LEMMA TakenOK ==
  ASSUME net \in Net, NEW S, NEW H, NetOK(net, S, H), AwayOK(net, up),
         NEW p \in Players, NEW q \in Players, net[<<p, q>>] # <<>>
  PROVE  /\ NetOK(Taken(q, p), S, H) /\ AwayOK(Taken(q, p), up)
         /\ PacketOK(S, H, <<p, q>>, Head(net[<<p, q>>]))
<1>1. net[<<p, q>>] \in Seq(Packet) /\ <<p, q>> \in Players \X Players
  BY DEF Net
<1>2. Len(net[<<p, q>>]) \in Nat /\ Len(net[<<p, q>>]) >= 1
  BY <1>1
<1>3. 1 \in DOMAIN net[<<p, q>>] /\ Head(net[<<p, q>>]) = net[<<p, q>>][1]
  BY <1>1, <1>2
<1>4. ASSUME NEW w \in Players \X Players, NEW i \in DOMAIN Taken(q, p)[w]
      PROVE  PacketOK(S, H, w, Taken(q, p)[w][i])
  <2>1. CASE w = <<p, q>>
    <3>1. Taken(q, p)[w] = Tail(net[w])
      BY <2>1, <1>1 DEF Taken, Net
    <3>2. i + 1 \in DOMAIN net[w] /\ Tail(net[w])[i] = net[w][i + 1]
      BY <3>1, <2>1, <1>1, <1>2
    <3> QED BY <3>1, <3>2 DEF NetOK
  <2>2. CASE w # <<p, q>>
    <3>1. Taken(q, p)[w] = net[w]
      BY <2>2 DEF Taken, Net
    <3> QED BY <3>1 DEF NetOK
  <2> QED BY <2>1, <2>2
<1>5. AwayOK(Taken(q, p), up)
  BY <1>1 DEF AwayOK, Taken, Net
<1> QED BY <1>1, <1>3, <1>4, <1>5 DEF NetOK

\* One more pair is written: where the next one goes is one further.
LEMMA NextPair ==
  ASSUME NEW a \in 0 .. NumPairs - 1
  PROVE  /\ (a + 1) % NumPairs = IF a = NumPairs - 1 THEN 0 ELSE a + 1
         /\ Back((a + 1) % NumPairs, 1) = a
         /\ \A d \in 2 .. NumPairs : /\ Back((a + 1) % NumPairs, d) = Back(a, d - 1)
                                     /\ Back(a, d - 1) \in 0 .. NumPairs - 1
                                     /\ Back(a, d - 1) # a
<1>1. NumPairs \in Nat \ {0} /\ a \in Nat
  BY SizesAssumption
<1>2. CASE a = NumPairs - 1
  <2>1. a + 1 = NumPairs
    BY <1>1, <1>2
  <2>2. NumPairs % NumPairs = 0
    BY <1>1
  <2>3. (a + 1) % NumPairs = 0
    BY <2>1, <2>2
  <2> QED BY <2>3, <1>1, <1>2 DEF Back
<1>3. CASE a # NumPairs - 1
  <2>1. a + 1 \in 0 .. NumPairs - 1
    BY <1>1, <1>3
  <2>2. (a + 1) % NumPairs = a + 1
    BY <1>1, <2>1
  <2> QED BY <2>2, <1>1, <1>3 DEF Back
<1> QED BY <1>2, <1>3

\* A message whose pair is not in the table is handed over and noted: it is not among
\* the last NumPairs handled, and the table holds these again.
LEMMA NotedOK ==
  ASSUME NEW S \in Seq(Sent), NEW a \in 0 .. NumPairs - 1, NEW t \in [0 .. NumPairs - 1 -> Pair],
         NEW h \in Seq(0 .. MaxMsgs), HandledOK(t, a, h, S),
         NEW m \in DOMAIN S, \A k \in 0 .. NumPairs - 1 : t[k] # S[m],
         m \in 0 .. MaxMsgs
  PROVE  HandledOK([t EXCEPT ![a] = S[m]], (a + 1) % NumPairs, Append(h, m), S)
<1> DEFINE c == (a + 1) % NumPairs
           u == [t EXCEPT ![a] = S[m]]
           g == Append(h, m)
<1>1. NumPairs \in Nat \ {0}
  BY SizesAssumption
<1>2. Len(h) \in Nat /\ Len(g) = Len(h) + 1 /\ DOMAIN h = 1 .. Len(h) /\ DOMAIN g = 1 .. Len(h) + 1
  OBVIOUS
<1>3. g[Len(h) + 1] = m /\ \A i \in DOMAIN h : g[i] = h[i]
  OBVIOUS
<1>4. u[a] = S[m] /\ \A k \in (0 .. NumPairs - 1) \ {a} : u[k] = t[k]
  OBVIOUS
<1> HIDE DEF u, g
<1>5. \A i \in DOMAIN g : g[i] \in DOMAIN S
  <2> SUFFICES ASSUME NEW i \in DOMAIN g PROVE g[i] \in DOMAIN S
    OBVIOUS
  <2>1. i \in DOMAIN h \/ i = Len(h) + 1
    BY <1>2
  <2> QED BY <2>1, <1>3 DEF HandledOK, TableOf
<1>6. ASSUME NEW d \in 1 .. NumPairs, d <= Len(g) PROVE u[Back(c, d)] = S[g[Len(g) + 1 - d]]
  <2>1. CASE d = 1
    <3>1. Back(c, d) = a /\ Len(g) + 1 - d = Len(h) + 1
      BY <2>1, <1>2, NextPair
    <3> QED BY <3>1, <1>3, <1>4
  <2>2. CASE d # 1
    <3> DEFINE e == d - 1
    <3>1. d \in 2 .. NumPairs /\ e \in 1 .. NumPairs /\ e <= Len(h)
      BY <2>2, <1>1, <1>2, <1>6
    <3>2. Back(c, d) = Back(a, e) /\ Back(a, e) \in 0 .. NumPairs - 1 /\ Back(a, e) # a
      BY <3>1, NextPair
    <3>3. t[Back(a, e)] = S[h[Len(h) + 1 - e]]
      BY <3>1 DEF HandledOK, TableOf
    <3>4. Len(g) + 1 - d = Len(h) + 1 - e /\ Len(h) + 1 - e \in DOMAIN h
      BY <3>1, <1>1, <1>2
    <3> QED BY <3>2, <3>3, <3>4, <1>3, <1>4
  <2> QED BY <2>1, <2>2
<1>7. ASSUME NEW k \in 0 .. NumPairs - 1 PROVE u[k] = NoPair \/ \E i \in DOMAIN g : u[k] = S[g[i]]
  <2>1. CASE k = a
    BY <2>1, <1>2, <1>3, <1>4
  <2>2. CASE k # a
    <3>1. u[k] = t[k]
      BY <2>2, <1>4
    <3>2. t[k] = NoPair \/ \E i \in DOMAIN h : t[k] = S[h[i]]
      BY DEF HandledOK, TableOf
    <3> QED BY <3>1, <3>2, <1>2, <1>3
  <2> QED BY <2>1, <2>2
<1>8. ASSUME NEW i \in DOMAIN g, NEW j \in DOMAIN g, i < j, g[i] = g[j] PROVE j - i > NumPairs
  <2>1. i \in DOMAIN h /\ i \in Nat /\ j \in Nat
    BY <1>2, <1>8
  <2>2. CASE j \in DOMAIN h
    BY <2>1, <2>2, <1>3, <1>8 DEF HandledOK, NoneTwice
  <2>3. CASE j = Len(h) + 1
    <3>1. h[i] = m
      BY <2>1, <2>3, <1>3, <1>8
    <3>2. ASSUME j - i <= NumPairs PROVE FALSE
      <4>1. PICK d \in 1 .. NumPairs : d <= Len(h) /\ Len(h) + 1 - d = i
        <5>1. Len(h) + 1 - i \in 1 .. NumPairs
          BY <2>1, <2>3, <3>2, <1>1, <1>2
        <5> QED BY <5>1, <2>1, <2>3, <3>2, <1>1, <1>2
      <4>2. t[Back(a, d)] = S[m]
        BY <4>1, <3>1, <2>1 DEF HandledOK, TableOf
      <4>3. Back(a, d) \in 0 .. NumPairs - 1
        BY <4>1, <1>1 DEF Back
      <4> QED BY <4>2, <4>3
    <3> QED BY <3>2, <2>1, <1>1, <1>2, <2>3
  <2> QED BY <2>2, <2>3, <1>2
<1>9. HandledOK(u, c, g, S)
  BY <1>5, <1>6, <1>7, <1>8 DEF HandledOK, TableOf, NoneTwice
<1> QED BY <1>9 DEF u, g

\* More messages sent change nothing of those handled.
LEMMA HandledStays ==
  ASSUME NEW S, NEW T, DOMAIN S \subseteq DOMAIN T, \A m \in DOMAIN S : T[m] = S[m],
         NEW t, NEW a, NEW h \in Seq(0 .. MaxMsgs), HandledOK(t, a, h, S)
  PROVE  HandledOK(t, a, h, T)
<1>1. ASSUME NEW d \in 1 .. NumPairs, d <= Len(h) PROVE t[Back(a, d)] = T[h[Len(h) + 1 - d]]
  <2>1. NumPairs \in Nat /\ Len(h) + 1 - d \in DOMAIN h
    BY <1>1, SizesAssumption
  <2> QED BY <2>1, <1>1 DEF HandledOK, TableOf
<1>2. ASSUME NEW k \in 0 .. NumPairs - 1 PROVE t[k] = NoPair \/ \E i \in DOMAIN h : t[k] = T[h[i]]
  BY DEF HandledOK, TableOf
<1> QED BY <1>1, <1>2 DEF HandledOK, TableOf

\* A step that sends nothing and hands nothing over keeps the links of the rest.
LEMMA LinkKept ==
  ASSUME LinkInv, UNCHANGED <<pairs, at, sends, handled>>,
         NetOK(net', sends, handled), BufOf(buf', sends), AwayOK(net', up')
  PROVE  LinkInv'
  BY DEF LinkInv

LEMMA LinkSend ==
  ASSUME FullInv, NEW p \in Players, NEW to, Send(p, to)
  PROVE  LinkInv'
<1> DEFINE id == IF nextId[p] = NoId THEN 1 ELSE nextId[p]
           e  == [id |-> id, owed |-> Owed(p, to), tries |-> 0, msg |-> Len(sends) + 1]
           m  == [from |-> p, id |-> id]
<1>1. CommInv /\ LinkInv /\ TypeOK /\ BufOK /\ net \in Net /\ p \in up
  BY DEF FullInv, CommInv, TypeOK, Net, Send
<1>2. id \in Ids /\ m \in Sent
  BY <1>1, IdTypes DEF TypeOK, Sent
<1>3. Oldest(buf[p]) = {0} /\ FirstFree(buf[p]) # NumSlots
  <2>1. buf[p] \in [Slots -> Entry] /\ \A s \in Slots \ {0} : buf[p][s] = Empty
    BY <1>1 DEF BufOK, CommInv, SlotInv, OnlyFirstSlot
  <2> QED BY <2>1, OldestIsFirst, FirstFreeIsNear
<1>4. /\ DOMAIN sends \subseteq DOMAIN sends' /\ \A i \in DOMAIN sends : sends'[i] = sends[i]
      /\ OfMessage(sends', p, e) /\ UNCHANGED <<pairs, at, handled, up>>
  <2>1. sends' = Append(sends, m) /\ UNCHANGED <<pairs, at, handled, up>>
    BY DEF Send, netVars
  <2>2. sends \in Seq(Sent)
    BY <1>1 DEF TypeOK, Sent
  <2>3. Len(sends) + 1 \in DOMAIN sends' /\ sends'[Len(sends) + 1] = m
    BY <1>2, <2>1, <2>2
  <2>4. DOMAIN sends \subseteq DOMAIN sends' /\ \A i \in DOMAIN sends : sends'[i] = sends[i]
    BY <1>2, <2>1, <2>2
  <2> QED BY <2>1, <2>3, <2>4 DEF OfMessage
<1>5. NetOK(net, sends', handled)
  BY <1>1, <1>4, PacketStays DEF LinkInv, NetOK
<1>6. BufOf(buf, sends')
  BY <1>1, <1>4 DEF LinkInv, BufOf, OfMessage
<1>7. \A q \in Players : HandledOK(pairs[q], at[q], handled[q], sends')
  <2> SUFFICES ASSUME NEW q \in Players PROVE HandledOK(pairs[q], at[q], handled[q], sends')
    OBVIOUS
  <2>1. HandledOK(pairs[q], at[q], handled[q], sends) /\ handled[q] \in Seq(0 .. MaxMsgs)
    BY <1>1 DEF LinkInv, TypeOK
  <2> QED BY <2>1, <1>4, HandledStays
<1>8. \/ UNCHANGED <<buf, net>>
      \/ /\ buf' = [buf EXCEPT ![p][0] = e]
         /\ net' = Put(net, p, Recipients(p, to), Message(e))
  BY <1>3 DEF Send
<1>9. CASE UNCHANGED <<buf, net>>
  BY <1>1, <1>4, <1>5, <1>6, <1>7, <1>9 DEF LinkInv
<1>10. CASE /\ buf' = [buf EXCEPT ![p][0] = e]
            /\ net' = Put(net, p, Recipients(p, to), Message(e))
  <2> HIDE DEF e
  <2>1. \A r \in Players : PacketOK(sends', handled, <<p, r>>, Message(e))
    BY <1>4 DEF PacketOK, OfMessage, Message
  <2>2. NetOK(net', sends', handled)
    BY <2>1, <1>1, <1>5, <1>10, PutOK
  <2>3. AwayOK(net', up)
    BY <1>1, <1>10, PutAway DEF LinkInv
  <2>4. BufOf(buf', sends')
    <3> SUFFICES ASSUME NEW i \in Players, NEW s \in Slots, buf'[i][s].id # NoId
                 PROVE  OfMessage(sends', i, buf'[i][s])
      BY DEF BufOf
    <3>1. CASE i = p /\ s = 0
      BY <3>1, <1>1, <1>4, <1>10 DEF BufOK
    <3>2. CASE ~(i = p /\ s = 0)
      <4>1. buf'[i][s] = buf[i][s]
        BY <3>2, <1>1, <1>10 DEF BufOK
      <4> QED BY <4>1, <1>6 DEF BufOf
    <3> QED BY <3>1, <3>2
  <2> QED BY <2>2, <2>3, <2>4, <1>4, <1>7 DEF LinkInv
<1> QED BY <1>8, <1>9, <1>10

LEMMA LinkRetry ==
  ASSUME FullInv, NEW p \in Players, NEW s \in Slots, Retry(p, s)
  PROVE  LinkInv'
<1> DEFINE e == Again(p, buf[p][s])
<1>1. LinkInv /\ BufOK /\ net \in Net /\ p \in up /\ buf[p][s].id # NoId
  BY DEF FullInv, CommInv, TypeOK, BufOK, Net, Retry
<1>2. OfMessage(sends, p, buf[p][s]) /\ e.id = buf[p][s].id /\ e.msg = buf[p][s].msg
  BY <1>1, AgainType DEF LinkInv, BufOf
<1>3. \A r \in Players : PacketOK(sends, handled, <<p, r>>, Message(e))
  BY <1>2 DEF PacketOK, OfMessage, Message
<1>4. net' = Put(net, p, e.owed, Message(e)) /\ UNCHANGED <<pairs, at, sends, handled, up>>
  BY DEF Retry, netVars
<1>5. NetOK(net', sends, handled) /\ AwayOK(net', up)
  <2>1. NetOK(net, sends, handled) /\ AwayOK(net, up)
    BY <1>1 DEF LinkInv
  <2> HIDE DEF e
  <2> QED BY <2>1, <1>1, <1>3, <1>4, PutOK, PutAway
<1>6. BufOf(buf', sends)
  <2> SUFFICES ASSUME NEW i \in Players, NEW t \in Slots, buf'[i][t].id # NoId
               PROVE  OfMessage(sends, i, buf'[i][t])
    BY DEF BufOf
  <2>1. buf' = [buf EXCEPT ![p][s] = IF Spent(e) THEN Empty ELSE e]
    BY DEF Retry
  <2>2. CASE i = p /\ t = s
    <3>1. buf'[i][t] = e
      BY <2>1, <2>2, <1>1 DEF BufOK, Empty
    <3> QED BY <3>1, <2>2, <1>2 DEF OfMessage
  <2>3. CASE ~(i = p /\ t = s)
    <3>1. buf'[i][t] = buf[i][t]
      BY <2>1, <2>3, <1>1 DEF BufOK
    <3> QED BY <3>1, <1>1 DEF LinkInv, BufOf
  <2> QED BY <2>2, <2>3
<1> QED BY <1>1, <1>4, <1>5, <1>6, LinkKept

\* The answer to a message says that it was handled, now or before: a pair in the
\* table stands for one that was.
LEMMA LinkReceive ==
  ASSUME FullInv, NEW q \in Players, NEW p \in Players, ReceiveMessage(q, p)
  PROVE  LinkInv'
<1>1. LinkInv /\ TypeOK /\ net \in Net /\ q \in up
  BY DEF FullInv, CommInv, TypeOK, Net, ReceiveMessage
<1>2. PICK k \in {Head(w) : w \in {net[<<p, q>>]} \ {<<>>}} :
        /\ k.kind = "message"
        /\ net' = Put(Taken(q, p), q, {p}, [kind |-> "answer", id |-> k.id, msg |-> 0])
        /\ IF Seen(q, p, k.id) THEN UNCHANGED <<pairs, at, handled>>
           ELSE /\ pairs' = [pairs EXCEPT ![q][at[q]] = [from |-> p, id |-> k.id]]
                /\ at' = [at EXCEPT ![q] = (@ + 1) % NumPairs]
                /\ handled' = [handled EXCEPT ![q] = Append(@, k.msg)]
  BY DEF ReceiveMessage, Welcome
<1>3. net[<<p, q>>] # <<>> /\ k = Head(net[<<p, q>>]) /\ UNCHANGED <<buf, up, sends>>
  BY <1>2 DEF ReceiveMessage, netVars
<1>4. /\ Taken(q, p) \in Net /\ NetOK(Taken(q, p), sends, handled) /\ AwayOK(Taken(q, p), up)
      /\ k \in Packet /\ PacketOK(sends, handled, <<p, q>>, k)
  BY <1>1, <1>3, TakenOK, TakenType DEF LinkInv
<1>5. OfMessage(sends, p, k)
  BY <1>2, <1>4 DEF PacketOK
<1>6. \A i \in Players : \A j \in DOMAIN handled[i] :
        j \in DOMAIN handled'[i] /\ handled'[i][j] = handled[i][j]
  <2>1. CASE UNCHANGED handled
    BY <2>1
  <2>2. CASE handled' = [handled EXCEPT ![q] = Append(@, k.msg)]
    <3> SUFFICES ASSUME NEW i \in Players, NEW j \in DOMAIN handled[i]
                 PROVE  j \in DOMAIN handled'[i] /\ handled'[i][j] = handled[i][j]
      OBVIOUS
    <3>1. handled[i] \in Seq(0 .. MaxMsgs) /\ k.msg \in 0 .. MaxMsgs
      BY <1>1, <1>4 DEF TypeOK, Packet
    <3>2. handled'[i] = IF i = q THEN Append(handled[i], k.msg) ELSE handled[i]
      BY <2>2, <1>1 DEF TypeOK
    <3> QED BY <3>1, <3>2
  <2> QED BY <2>1, <2>2, <1>2
<1>7. NetOK(Taken(q, p), sends, handled')
  <2>1. ASSUME NEW w \in Players \X Players, NEW i \in DOMAIN Taken(q, p)[w]
        PROVE  PacketOK(sends, handled', w, Taken(q, p)[w][i])
    <3>1. w[1] \in Players /\ PacketOK(sends, handled, w, Taken(q, p)[w][i])
      BY <1>4 DEF NetOK
    <3>2. \A j \in DOMAIN handled[w[1]] :
            j \in DOMAIN handled'[w[1]] /\ handled'[w[1]][j] = handled[w[1]][j]
      BY <3>1, <1>6
    <3> QED BY <3>1, <3>2 DEF PacketOK, Took
  <2> QED BY <2>1 DEF NetOK
<1>8. Took(sends, handled'[q], p, k.id) /\ \A i \in Players : HandledOK(pairs'[i], at'[i], handled'[i], sends)
  <2>1. \A i \in Players : HandledOK(pairs[i], at[i], handled[i], sends)
    BY <1>1 DEF LinkInv
  <2>2. CASE Seen(q, p, k.id)
    <3>1. UNCHANGED <<pairs, at, handled>>
      BY <2>2, <1>2
    <3>2. PICK j \in 0 .. NumPairs - 1 : pairs[q][j] = [from |-> p, id |-> k.id]
      BY <2>2 DEF Seen
    <3>3. pairs[q][j] # NoPair
      BY <3>2, PlayersAssumption DEF NoPair
    <3>4. PICK i \in DOMAIN handled[q] : pairs[q][j] = sends[handled[q][i]]
      BY <3>3, <2>1 DEF HandledOK, TableOf
    <3>5. handled[q][i] \in DOMAIN sends
      BY <2>1 DEF HandledOK, TableOf
    <3> QED BY <2>1, <3>1, <3>2, <3>4, <3>5 DEF Took
  <2>3. CASE ~Seen(q, p, k.id)
    <3>1. /\ pairs' = [pairs EXCEPT ![q][at[q]] = sends[k.msg]]
          /\ at' = [at EXCEPT ![q] = (at[q] + 1) % NumPairs]
          /\ handled' = [handled EXCEPT ![q] = Append(handled[q], k.msg)]
      BY <2>3, <1>2, <1>5 DEF OfMessage
    <3>2. /\ pairs'[q] = [pairs[q] EXCEPT ![at[q]] = sends[k.msg]]
          /\ at'[q] = (at[q] + 1) % NumPairs /\ handled'[q] = Append(handled[q], k.msg)
          /\ \A i \in Players \ {q} : pairs'[i] = pairs[i] /\ at'[i] = at[i] /\ handled'[i] = handled[i]
      BY <3>1, <1>1 DEF TypeOK
    <3>3. /\ sends \in Seq(Sent) /\ at[q] \in 0 .. NumPairs - 1 /\ pairs[q] \in [0 .. NumPairs - 1 -> Pair]
          /\ handled[q] \in Seq(0 .. MaxMsgs) /\ k.msg \in DOMAIN sends /\ k.msg \in 0 .. MaxMsgs
      BY <1>1, <1>4, <1>5 DEF TypeOK, Sent, Packet, OfMessage
    <3>4. \A j \in 0 .. NumPairs - 1 : pairs[q][j] # sends[k.msg]
      BY <2>3, <1>5 DEF Seen, OfMessage
    <3>5. HandledOK(pairs'[q], at'[q], handled'[q], sends)
      <4>1. HandledOK(pairs[q], at[q], handled[q], sends)
        BY <2>1
      <4>2. HandledOK([pairs[q] EXCEPT ![at[q]] = sends[k.msg]], (at[q] + 1) % NumPairs,
                      Append(handled[q], k.msg), sends)
        BY <4>1, <3>3, <3>4, NotedOK
      <4> QED BY <4>2, <3>2
    <3>6. Took(sends, handled'[q], p, k.id)
      <4>1. Len(handled[q]) + 1 \in DOMAIN handled'[q] /\ handled'[q][Len(handled[q]) + 1] = k.msg
        BY <3>2, <3>3
      <4> QED BY <4>1, <1>5 DEF Took, OfMessage
    <3> QED BY <2>1, <3>2, <3>5, <3>6
  <2> QED BY <2>2, <2>3
<1>9. PacketOK(sends, handled', <<q, p>>, [kind |-> "answer", id |-> k.id, msg |-> 0])
  BY <1>8 DEF PacketOK
<1>10. NetOK(net', sends, handled')
  BY <1>2, <1>4, <1>7, <1>9, PutOK
<1>11. AwayOK(net', up)
  BY <1>1, <1>2, <1>4, PutAway
<1> QED BY <1>1, <1>3, <1>8, <1>10, <1>11 DEF LinkInv

LEMMA LinkTaken ==
  ASSUME FullInv, NEW q \in Players, NEW p \in Players, net[<<p, q>>] # <<>>, net' = Taken(q, p),
         UNCHANGED <<pairs, at, sends, handled, up>>, BufOf(buf', sends)
  PROVE  LinkInv'
<1>1. LinkInv /\ net \in Net
  BY DEF FullInv, CommInv, TypeOK, Net
<1>2. NetOK(net', sends, handled) /\ AwayOK(net', up)
  BY <1>1, TakenOK DEF LinkInv
<1> QED BY <1>1, <1>2, LinkKept

LEMMA LinkAnswer ==
  ASSUME FullInv, NEW p \in Players, NEW q \in Players, ReceiveAnswer(p, q)
  PROVE  LinkInv'
<1>1. LinkInv /\ BufOK
  BY DEF FullInv, CommInv, TypeOK
<1>2. PICK k \in {Head(w) : w \in {net[<<q, p>>]} \ {<<>>}} :
        /\ net' = Taken(p, q)
        /\ LET S    == Answered(p, q, k.id)
               b    == [s \in Slots |-> IF s \in S THEN [buf[p][s] EXCEPT !.owed = @ \ (knows[p] \cap {q})]
                                        ELSE buf[p][s]]
               done == {s \in S : b[s].owed = {}}
           IN  buf' = [buf EXCEPT ![p] = [s \in Slots |-> IF s \in done THEN Empty ELSE b[s]]]
  BY DEF ReceiveAnswer
<1>3. ASSUME NEW i \in Players, NEW s \in Slots, buf'[i][s].id # NoId
      PROVE  OfMessage(sends, i, buf'[i][s])
  <2>1. buf'[i][s].id = buf[i][s].id /\ buf'[i][s].msg = buf[i][s].msg
    <3>1. CASE i # p
      BY <3>1, <1>1, <1>2 DEF BufOK
    <3>2. CASE i = p
      <4>1. \/ buf'[p][s] = Empty \/ buf'[p][s] = buf[p][s]
            \/ buf'[p][s] = [buf[p][s] EXCEPT !.owed = @ \ (knows[p] \cap {q})]
        BY <1>1, <1>2 DEF BufOK
      <4>2. buf[p][s] \in Entry
        BY <1>1 DEF BufOK
      <4> QED BY <4>1, <4>2, <3>2, <1>3 DEF Entry, Empty
    <3> QED BY <3>1, <3>2
  <2> QED BY <2>1, <1>1, <1>3 DEF LinkInv, BufOf, OfMessage
<1>4. UNCHANGED <<pairs, at, sends, handled, up>> /\ net[<<q, p>>] # <<>>
  BY <1>2 DEF ReceiveAnswer, netVars
<1> QED BY <1>2, <1>3, <1>4, LinkTaken DEF BufOf

LEMMA LinkLeave ==
  ASSUME FullInv, NEW p \in Players, Leave(p)
  PROVE  LinkInv'
<1>1. LinkInv /\ UNCHANGED <<buf, pairs, at, sends, handled>> /\ up' = up \ {p}
  BY DEF FullInv, Leave
<1>2. net' = [w \in Players \X Players |-> IF p \in {w[1], w[2]} THEN <<>> ELSE net[w]]
  BY DEF Leave
<1>3. NetOK(net', sends, handled)
  BY <1>1, <1>2 DEF LinkInv, NetOK
<1>4. AwayOK(net', up')
  BY <1>1, <1>2 DEF LinkInv, AwayOK
<1>5. BufOf(buf', sends)
  BY <1>1 DEF LinkInv
<1> QED BY <1>1, <1>3, <1>4, <1>5, LinkKept

\* A program started anew knows nothing it handled, and nobody has its answers: his
\* ways are empty, for he was away.
LEMMA LinkJoin ==
  ASSUME FullInv, NEW p \in Players, Join(p)
  PROVE  LinkInv'
<1>1. /\ LinkInv /\ TypeOK /\ BufOK /\ p \notin up /\ up' = up \cup {p} /\ UNCHANGED <<net, sends>>
      /\ buf' = [buf EXCEPT ![p] = NoMsgs]
  BY DEF FullInv, CommInv, TypeOK, Join
<1>2. AwayOK(net', up')
  BY <1>1 DEF LinkInv, AwayOK
<1>3. BufOf(buf', sends)
  BY <1>1 DEF LinkInv, BufOf, BufOK, NoMsgs, Empty
<1>4. CASE UNCHANGED <<nextId, pairs, at, handled>>
  <2>1. NetOK(net', sends, handled)
    BY <1>1 DEF LinkInv
  <2> QED BY <1>1, <1>2, <1>3, <1>4, <2>1, LinkKept
<1>5. CASE /\ at' = [at EXCEPT ![p] = 0] /\ pairs' = [pairs EXCEPT ![p] = NoPairs]
           /\ handled' = [handled EXCEPT ![p] = <<>>]
  <2>1. NetOK(net', sends, handled')
    <3> SUFFICES ASSUME NEW w \in Players \X Players, NEW i \in DOMAIN net[w]
                 PROVE  PacketOK(sends, handled', w, net[w][i])
      BY <1>1 DEF NetOK
    <3>1. w[1] # p
      BY <1>1 DEF LinkInv, AwayOK
    <3>2. w[1] \in Players /\ handled'[w[1]] = handled[w[1]]
      BY <3>1, <1>1, <1>5 DEF TypeOK
    <3> QED BY <3>2, <1>1 DEF LinkInv, NetOK, PacketOK
  <2>2. HandledOK(NoPairs, 0, <<>>, sends)
    <3>1. NumPairs \in Nat \ {0}
      BY SizesAssumption
    <3>2. \A d \in 1 .. NumPairs : ~(d <= Len(<<>>))
      BY <3>1
    <3> QED BY <3>2 DEF HandledOK, TableOf, NoneTwice, NoPairs
  <2>3. \A i \in Players : HandledOK(pairs'[i], at'[i], handled'[i], sends)
    BY <2>2, <1>1, <1>5 DEF LinkInv, TypeOK
  <2> QED BY <2>1, <2>3, <1>1, <1>2, <1>3 DEF LinkInv
<1> QED BY <1>4, <1>5 DEF Join

LEMMA LinkKnows ==
  ASSUME FullInv, NEW q \in Players, NEW p \in Players, Forget(q, p) \/ Learn(q, p)
  PROVE  LinkInv'
<1>1. LinkInv /\ UNCHANGED <<buf, pairs, at, net, up, sends, handled>>
  BY DEF FullInv, Forget, Learn
<1>2. NetOK(net', sends, handled) /\ BufOf(buf', sends) /\ AwayOK(net', up')
  BY <1>1 DEF LinkInv
<1> QED BY <1>1, <1>2, LinkKept

LEMMA InitFull == Init => FullInv
<1> SUFFICES ASSUME Init PROVE LinkInv
  BY InitInv DEF FullInv
<1>1. NetOK(net, sends, handled) /\ AwayOK(net, up)
  BY DEF Init, NetOK, AwayOK
<1>2. BufOf(buf, sends)
  BY DEF Init, BufOf, NoMsgs, Empty
<1>3. HandledOK(NoPairs, 0, <<>>, sends)
  <2>1. \A d \in 1 .. NumPairs : ~(d <= Len(<<>>))
    BY SizesAssumption
  <2> QED BY <2>1 DEF HandledOK, TableOf, NoneTwice, NoPairs
<1>4. \A q \in Players : pairs[q] = NoPairs /\ at[q] = 0 /\ handled[q] = <<>>
  BY DEF Init
<1> QED BY <1>1, <1>2, <1>3, <1>4 DEF LinkInv

LEMMA NextFull == FullInv /\ [Next]_vars => FullInv'
<1> SUFFICES ASSUME FullInv, [Next]_vars PROVE LinkInv'
  BY NextInv DEF FullInv
<1>1. CASE UNCHANGED vars
  <2>1. UNCHANGED <<net, buf, up, pairs, at, handled, sends>>
    BY <1>1 DEF vars, netVars
  <2> QED BY <2>1 DEF FullInv, LinkInv
<1>2. CASE Next
  <2>1. PICK p \in Players :
          \/ Leave(p) \/ Join(p)
          \/ \E to \in {All} \cup (knows[p] \ {p}) : Send(p, to)
          \/ \E s \in Slots : Retry(p, s)
          \/ \E q \in Players \ {p} :
               \/ ReceiveMessage(q, p) \/ DropMessage(q, p) \/ ReceiveAnswer(p, q)
               \/ Lose(p, q) \/ Forget(q, p) \/ Learn(q, p)
    BY <1>2 DEF Next
  <2>2. CASE Leave(p) \/ Join(p)
    BY <2>2, LinkLeave, LinkJoin
  <2>3. CASE \E to \in {All} \cup (knows[p] \ {p}) : Send(p, to)
    BY <2>3, LinkSend
  <2>4. CASE \E s \in Slots : Retry(p, s)
    BY <2>4, LinkRetry
  <2>5. ASSUME NEW q \in Players,
               ReceiveMessage(q, p) \/ ReceiveAnswer(p, q) \/ Forget(q, p) \/ Learn(q, p)
        PROVE  LinkInv'
    BY <2>5, LinkReceive, LinkAnswer, LinkKnows
  <2>6. ASSUME NEW q \in Players, DropMessage(q, p) \/ Lose(p, q)
        PROVE  LinkInv'
    <3>1. /\ net[<<p, q>>] # <<>> /\ net' = Taken(q, p)
          /\ UNCHANGED <<buf, pairs, at, sends, handled, up>>
      BY <2>6 DEF DropMessage, Lose, netVars
    <3>2. BufOf(buf', sends)
      BY <3>1 DEF FullInv, LinkInv
    <3> QED BY <3>1, <3>2, LinkTaken
  <2> QED BY <2>1, <2>2, <2>3, <2>4, <2>5, <2>6
<1> QED BY <1>1, <1>2

LEMMA SpecInv == Spec => []CommInv
  BY InitInv, NextInv, PTL DEF Spec

\* In every reachable state the variables keep their types: no slot is tried more often
\* than MaxTries, no packet has an id of 0, which would mean that no answer is wanted.
THEOREM CommTypes == Spec => []TypeOK
<1>1. CommInv => TypeOK
  BY DEF CommInv
<1> QED BY <1>1, SpecInv, PTL

\* Whatever is sent, answered, lost or repeated, no slot but the first is ever taken: of
\* the 32 of sithComm_MsgTmpBuf, 31 serve nobody, and messages wait one at a time.
THEOREM OneSlotOnly == Spec => []OnlyFirstSlot
<1>1. CommInv => OnlyFirstSlot
  BY DEF CommInv, SlotInv
<1> QED BY <1>1, SpecInv, PTL

\* A message that waits for an answer is counted by sithComm_idk2, so that
\* sithComm_SyncWithPlayers never passes over it.
THEOREM NoneForgotten == Spec => []WaitingIsCounted
  BY SlotsCounted, SpecInv, PTL

LEMMA SpecFull == Spec => []FullInv
  BY InitFull, NextFull, PTL DEF Spec

\* Late, repeated and reordered copies of a message are handed over once only, until
\* sithComm_aMsgPairs has turned: of two times there are more than NumPairs messages apart.
THEOREM HandedOverOnce == Spec => []TwiceOnlyAfterTurn
<1>1. FullInv => TwiceOnlyAfterTurn
  BY DEF FullInv, LinkInv, HandledOK, NoneTwice, TwiceOnlyAfterTurn
<1> QED BY <1>1, SpecFull, PTL

\* Only the answer of a player strikes him off, and he answers what he has handled.
LEMMA StruckOffStep ==
  ASSUME FullInv, [Next]_vars, NEW p \in Players, NEW q \in Players, NEW s \in Slots,
         q \in buf[p][s].owed \ buf'[p][s].owed,
         Len(net'[<<q, p>>]) < Len(net[<<q, p>>]), p \in up'
  PROVE  \E k \in DOMAIN handled[q] : sends[handled[q][k]] = [from |-> p, id |-> buf[p][s].id]
<1>1. LinkInv /\ BufOK /\ net \in Net /\ TypeOK
  BY DEF FullInv, CommInv, TypeOK, Net
<1>2. buf[p] # buf'[p] /\ net[<<q, p>>] # net'[<<q, p>>] /\ buf # buf' /\ net # net'
  <2>1. buf[p] # buf'[p]
    OBVIOUS
  <2>2. net[<<q, p>>] \in Seq(Packet)
    BY <1>1 DEF Net
  <2>3. net[<<q, p>>] # net'[<<q, p>>]
    BY <2>2
  <2> QED BY <2>1, <2>3
<1>3. ASSUME NEW n \in Net, NEW i \in Players, NEW R, NEW k
      PROVE  ~(Len(Put(n, i, R, k)[<<q, p>>]) < Len(n[<<q, p>>]))
  <2>1. n[<<q, p>>] \in Seq(Packet) /\ <<q, p>> \in Players \X Players
    BY DEF Net
  <2>2. Put(n, i, R, k)[<<q, p>>] \in {n[<<q, p>>], Append(n[<<q, p>>], k)}
    BY <2>1 DEF Put
  <2>3. Len(Append(n[<<q, p>>], k)) = Len(n[<<q, p>>]) + 1 /\ Len(n[<<q, p>>]) \in Nat
    BY <2>1
  <2> QED BY <2>2, <2>3
<1>4. ASSUME NEW i \in Players, NEW to, Send(i, to) PROVE FALSE
  <2>1. Oldest(buf[i]) = {0} /\ FirstFree(buf[i]) # NumSlots
    <3>1. buf[i] \in [Slots -> Entry] /\ \A t \in Slots \ {0} : buf[i][t] = Empty
      BY <1>1 DEF BufOK, FullInv, CommInv, SlotInv, OnlyFirstSlot
    <3> QED BY <3>1, OldestIsFirst, FirstFreeIsNear
  <2>2. \E k : net' = Put(net, i, Recipients(i, to), k)
    BY <1>2, <1>4, <2>1 DEF Send
  <2> QED BY <1>1, <1>3, <2>2
<1>5. ASSUME NEW i \in Players, NEW t \in Slots, Retry(i, t) PROVE FALSE
  <2>1. \E R, k : net' = Put(net, i, R, k)
    BY <1>5 DEF Retry
  <2> QED BY <1>1, <1>3, <2>1
<1>6. ASSUME NEW i \in Players, NEW r \in Players, ReceiveAnswer(i, r)
      PROVE  \E k \in DOMAIN handled[q] : sends[handled[q][k]] = [from |-> p, id |-> buf[p][s].id]
  <2>1. PICK k \in {Head(w) : w \in {net[<<r, i>>]} \ {<<>>}} :
          /\ k.kind = "answer" /\ net' = Taken(i, r)
          /\ LET S    == Answered(i, r, k.id)
                 b    == [t \in Slots |-> IF t \in S THEN [buf[i][t] EXCEPT !.owed = @ \ (knows[i] \cap {r})]
                                          ELSE buf[i][t]]
                 done == {t \in S : b[t].owed = {}}
             IN  buf' = [buf EXCEPT ![i] = [t \in Slots |-> IF t \in done THEN Empty ELSE b[t]]]
    BY <1>6 DEF ReceiveAnswer
  <2>2. i = p /\ r = q
    <3>1. i = p
      BY <1>1, <1>2, <2>1 DEF BufOK
    <3>2. <<r, i>> = <<q, p>>
      BY <1>1, <1>2, <2>1 DEF Taken, Net
    <3> QED BY <3>1, <3>2
  <2>3. s \in Answered(p, q, k.id)
    <3>1. CASE s \notin Answered(p, q, k.id)
      BY <3>1, <2>1, <2>2, <1>1 DEF BufOK
    <3> QED BY <3>1
  <2>4. buf[p][s].id = k.id
    BY <2>3 DEF Answered
  <2>5. net[<<q, p>>] # <<>> /\ k = Head(net[<<q, p>>])
    BY <2>1, <2>2
  <2>6. PacketOK(sends, handled, <<q, p>>, k)
    BY <2>5, <1>1, TakenOK DEF LinkInv
  <2>7. Took(sends, handled[q], p, k.id)
    BY <2>1, <2>6 DEF PacketOK
  <2> QED BY <2>4, <2>7 DEF Took
<1>7. Next
  BY <1>2 DEF vars
<1>8. PICK i \in Players :
        \/ Leave(i) \/ Join(i)
        \/ \E to \in {All} \cup (knows[i] \ {i}) : Send(i, to)
        \/ \E t \in Slots : Retry(i, t)
        \/ \E r \in Players \ {i} :
             \/ ReceiveMessage(r, i) \/ DropMessage(r, i) \/ ReceiveAnswer(i, r)
             \/ Lose(i, r) \/ Forget(r, i) \/ Learn(r, i)
  BY <1>7 DEF Next
<1>9. CASE Leave(i) \/ Join(i)
  BY <1>2, <1>9 DEF Leave, Join
<1>10. ASSUME NEW r \in Players, ReceiveMessage(r, i) \/ DropMessage(r, i) \/ Lose(i, r)
                                 \/ Forget(r, i) \/ Learn(r, i)
       PROVE  FALSE
  BY <1>2, <1>10 DEF ReceiveMessage, DropMessage, Lose, Forget, Learn
<1> QED BY <1>4, <1>5, <1>6, <1>8, <1>9, <1>10

\* A player is struck off a message by his own answer only when his handlers were
\* called for it, or for another of the same net id with the same number: none is
\* believed received that only got lost, however answers and copies cross.
THEOREM AnswersAreTrue == Spec => StruckOffMeansTaken
<1>1. FullInv /\ [Next]_vars =>
        [\A p, q \in Players : \A s \in Slots :
           /\ q \in buf[p][s].owed \ buf'[p][s].owed /\ q \in knows[p]
           /\ Len(net'[<<q, p>>]) < Len(net[<<q, p>>]) /\ p \in up'
           => \E k \in DOMAIN handled[q] :
                sends[handled[q][k]] = [from |-> p, id |-> buf[p][s].id]]_vars
  BY StruckOffStep
<1> QED BY <1>1, SpecFull, PTL DEF Spec, StruckOffMeansTaken

=============================================================================
