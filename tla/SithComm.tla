------------------------------ MODULE SithComm ------------------------------
(***************************************************************************)
(* Acknowledged messages between the players of a network game             *)
(* (Devices/sithComm.c): a message is kept in a slot until every addressee *)
(* has answered, sent again when it gets old, given up after MaxTries; the *)
(* receiver answers each copy and hands over the first one only.           *)
(*                                                                         *)
(* A player is his index in jkPlayer_playerInfos, and his net id stands    *)
(* and falls with his being known.  Time is left out: a slot may be due in *)
(* any frame.  Messages that ask for no answer leave nothing behind and    *)
(* are left out; so is what the handlers do with a message.                *)
(* The network (external) keeps the order on each way, and loses packets:  *)
(* nobody looks at what SendMessageToConnection returns for the server.    *)
(***************************************************************************)
EXTENDS Integers, Sequences, SequencesExt, FiniteSets

CONSTANTS
  Players,     \* indices of jkPlayer_playerInfos, and the net ids that go with them
  Server,      \* player 0
  All,         \* -1: everybody, or nobody
  NumSlots,    \* of sithComm_MsgTmpBuf: 32
  NumPairs,    \* of sithComm_aMsgPairs: 128
  MaxTries,    \* 6
  HalfIds,     \* 2^15: ids are 16 bits, read with a sign in an answer
  Dialogue,    \* the messages, by number, of the dialogue of joining
  MaxMsgs,     \* bound of the model: messages sent
  MaxJoins,    \* bound of the model: times a player comes back
  MaxNet       \* room of one way of the network

ASSUME PlayersAssumption == Server \in Players /\ All \notin Players /\ IsFiniteSet(Players)
ASSUME SlotsAssumption == NumSlots \in Nat /\ NumSlots > 1
ASSUME SizesAssumption ==
  /\ NumPairs \in Nat \ {0} /\ MaxTries \in Nat \ {0} /\ HalfIds \in Nat \ {0}
  /\ MaxMsgs \in Nat /\ MaxJoins \in Nat /\ MaxNet \in Nat
ASSUME DialogueAssumption == Dialogue \subseteq Nat

Slots == 0 .. NumSlots - 1
Ids   == 1 .. 2 * HalfIds - 1
NoId  == 0

VARIABLES
  nextId,   \* sithComm_msgId, its low 16 bits
  buf,      \* sithComm_MsgTmpBuf: what waits for answers
  used,     \* sithComm_idk2
  pairs,    \* sithComm_aMsgPairs: what was handled, by sender and id
  at,       \* sithComm_dword_847E84: the pair to replace next
  knows,    \* the players each one has a net id for
  net,      \* the packets under way, by sender and receiver
  up,       \* the players in the game
  joins,    \* how often a player has come back
  sends,    \* every message ever sent: its sender and its id
  handled   \* the messages each player's handlers were called for since his program started

netVars == <<knows, up, joins>>
vars == <<nextId, buf, used, pairs, at, net, netVars, sends, handled>>

\* id, field_14, field_18; msg is the message itself
Entry  == [id : Ids \cup {NoId}, owed : SUBSET Players, tries : 0 .. MaxTries - 1,
           msg : 0 .. MaxMsgs]
Empty  == [id |-> NoId, owed |-> {}, tries |-> 0, msg |-> 0]
Pair   == [from : Players \cup {All}, id : Ids \cup {NoId}]
NoPair == [from |-> All, id |-> NoId]
Packet == [kind : {"message", "answer"}, id : Ids, msg : 0 .. MaxMsgs]

BufOK  == buf \in [Players -> [Slots -> Entry]]

\* The types.  Ids stay within 16 bits, and a message that waits in a slot was sent
\* again less than MaxTries times: one that reached the limit is given up.
TypeOK ==
  /\ nextId \in [Players -> Ids \cup {NoId}] /\ BufOK /\ used \in [Players -> Int]
  /\ pairs \in [Players -> [0 .. NumPairs - 1 -> Pair]]
  /\ at \in [Players -> 0 .. NumPairs - 1]
  /\ knows \in [Players -> SUBSET Players] /\ up \in SUBSET Players
  /\ net \in [Players \X Players -> Seq(Packet)]
  /\ joins \in Nat /\ sends \in Seq([from : Players, id : Ids])
  /\ Len(sends) <= MaxMsgs /\ handled \in [Players -> Seq(0 .. MaxMsgs)]

\* sithComm_Startup
NoPairs == [k \in 0 .. NumPairs - 1 |-> NoPair]
NoMsgs  == [s \in Slots |-> Empty]

Init ==
  /\ nextId = [p \in Players |-> 1] /\ buf = [p \in Players |-> NoMsgs]
  /\ used = [p \in Players |-> 0]
  /\ pairs = [p \in Players |-> NoPairs] /\ at = [p \in Players |-> 0]
  /\ knows = [p \in Players |-> Players] /\ up = Players /\ joins = 0
  /\ net = [w \in Players \X Players |-> <<>>]
  /\ sends = <<>> /\ handled = [p \in Players |-> <<>>]

-----------------------------------------------------------------------------
(* Sending.                                                                *)

\* stdComm_SendToPlayer to each player of S: a full way loses the packet.
Put(n, p, S, k) ==
  [w \in Players \X Players |->
     IF w[1] = p /\ w[2] \in S /\ w[2] \in up /\ Len(n[w]) < MaxNet THEN Append(n[w], k) ELSE n[w]]

Message(e) == [kind |-> "message", id |-> e.id, msg |-> e.msg]

\* Who must answer a message of p to a player, or to all.  The server always must
\* ("Dedicated server hax"), also when he is not among those it goes to.
Owed(p, to) ==
  {i \in Players : i # p /\ (i = to \/ (to = All /\ i \in knows[p]) \/ i = Server)}

Recipients(p, to) == IF to = All THEN (knows[p] \cup {Server}) \ {p} ELSE {to}

\* The first free slot, or NumSlots; and the oldest of those before it, or the first
\* one when none of them is from an earlier frame.
FirstFree(b) == CHOOSE f \in 0 .. NumSlots :
  /\ f = NumSlots \/ b[f].id = NoId
  /\ \A s \in 0 .. f - 1 : b[s].id # NoId

FreeOne(b) == {FirstFree(b) % NumSlots}

Oldest(b) ==
  {0} \cup {s \in 0 .. FirstFree(b) - 1 : \A t \in 0 .. FirstFree(b) - 1 : b[s].msg <= b[t].msg}

\* A slot is sent again: players no longer known owe nothing any more.
Again(p, e) ==
  [id |-> e.id, owed |-> e.owed \cap knows[p], tries |-> e.tries + 1, msg |-> e.msg]

TriedOnceMore(e) == e.owed = {} \/ e.tries > MaxTries

Spent(e) == e.owed = {} \/ e.tries >= MaxTries

\* sithComm_idk2, once a slot was looked at
Miscounted(p, gone) == used[p] - 1

Counted(p, gone) == IF gone THEN used[p] - 1 ELSE used[p]

\* sithComm_SendMsgToPlayer with an answer asked for.  When every slot is taken the
\* oldest is sent once more and replaced.  The slot written to is the oldest in
\* every case, also when a free one was found.
Send(p, to) ==
  LET id   == IF nextId[p] = NoId THEN 1 ELSE nextId[p]
      e    == [id |-> id, owed |-> Owed(p, to), tries |-> 0, msg |-> Len(sends) + 1]
      full == FirstFree(buf[p]) = NumSlots
  IN  /\ p \in up /\ Len(sends) < MaxMsgs
      /\ nextId' = [nextId EXCEPT ![p] = (id + 1) % (2 * HalfIds)]
      /\ sends' = Append(sends, [from |-> p, id |-> id])
      /\ \/ e.owed = {} /\ UNCHANGED <<buf, used, net>>
         \/ /\ e.owed # {}
            /\ \E s \in Oldest(buf[p]) :
                 LET old == Again(p, buf[p][s])
                     n   == IF full THEN Put(net, p, old.owed, Message(old)) ELSE net
                 IN  /\ buf' = [buf EXCEPT ![p][s] = e]
                     /\ used' = [used EXCEPT ![p] = IF full THEN Counted(p, Spent(old)) ELSE @ + 1]
                     /\ net' = Put(n, p, Recipients(p, to), Message(e))
      /\ UNCHANGED <<pairs, at, netVars, handled>>

\* sithComm_SyncWithPlayers, for one slot that is due
Retry(p, s) ==
  LET e == Again(p, buf[p][s])
  IN  /\ p \in up /\ used[p] # 0 /\ buf[p][s].id # NoId
      /\ net' = Put(net, p, e.owed, Message(e))
      /\ buf' = [buf EXCEPT ![p][s] = IF Spent(e) THEN Empty ELSE e]
      /\ used' = [used EXCEPT ![p] = Counted(p, Spent(e))]
      /\ UNCHANGED <<nextId, pairs, at, netVars, sends, handled>>

-----------------------------------------------------------------------------
(* Receiving: one turn of the loop of sithComm_Sync.                       *)

Taken(q, p) == [net EXCEPT ![<<p, q>>] = Tail(@)]

SeenFromAnyone(q, p, id) == \E k \in 0 .. NumPairs - 1 : pairs[q][k].id = id

SeenButLast(q, p, id) == \E k \in 0 .. NumPairs - 2 : pairs[q][k] = [from |-> p, id |-> id]

Seen(q, p, id) == \E k \in 0 .. NumPairs - 1 : pairs[q][k] = [from |-> p, id |-> id]

\* A message is taken from a known player, and from any player when it is part of the
\* dialogue of joining (DSS_WELCOME, DSS_JOINREQUEST, DSS_LEAVEJOIN).
Welcome(q, p, k) == k.kind = "message" /\ (p \in knows[q] \/ k.msg \in Dialogue)

\* It is answered, and handed over unless it was before.
ReceiveMessage(q, p) ==
  \E k \in {Head(w) : w \in {net[<<p, q>>]} \ {<<>>}} :
    /\ q \in up /\ Welcome(q, p, k)
    /\ net' = Put(Taken(q, p), q, {p}, [kind |-> "answer", id |-> k.id, msg |-> 0])
    /\ IF Seen(q, p, k.id) THEN UNCHANGED <<pairs, at, handled>>
       ELSE /\ pairs' = [pairs EXCEPT ![q][at[q]] = [from |-> p, id |-> k.id]]
            /\ at' = [at EXCEPT ![q] = (@ + 1) % NumPairs]
            /\ handled' = [handled EXCEPT ![q] = Append(@, k.msg)]
    /\ UNCHANGED <<nextId, buf, used, netVars, sends>>

\* Any other one is dropped (a server tells its sender to quit).
DropMessage(q, p) ==
  /\ q \in up /\ net[<<p, q>>] # <<>>
  /\ Head(net[<<p, q>>]).kind = "message" /\ ~Welcome(q, p, Head(net[<<p, q>>]))
  /\ net' = Taken(q, p)
  /\ UNCHANGED <<nextId, buf, used, pairs, at, netVars, sends, handled>>

\* sithComm_cogMsg_Reset: the first slot of that id is owed one answer less.  The id is
\* popped as a signed number and compared with an unsigned one.
Answered(p, q, id) ==
  {s \in Slots : id < HalfIds /\ buf[p][s].id = id /\ \A t \in 0 .. s - 1 : buf[p][t].id # id}

ReceiveAnswer(p, q) ==
  \E k \in {Head(w) : w \in {net[<<q, p>>]} \ {<<>>}} :
    /\ p \in up /\ k.kind = "answer"
    /\ net' = Taken(p, q)
    /\ LET S    == Answered(p, q, k.id)
           b    == [s \in Slots |-> IF s \in S THEN [buf[p][s] EXCEPT !.owed = @ \ (knows[p] \cap {q})]
                                    ELSE buf[p][s]]
           done == {s \in S : b[s].owed = {}}
       IN  /\ buf' = [buf EXCEPT ![p] = [s \in Slots |-> IF s \in done THEN Empty ELSE b[s]]]
           /\ used' = [used EXCEPT ![p] = Counted(p, done # {})]
    /\ UNCHANGED <<nextId, pairs, at, netVars, sends, handled>>

-----------------------------------------------------------------------------
(* The network and the players.                                            *)

Lose(p, q) ==
  /\ net[<<p, q>>] # <<>> /\ net' = Taken(q, p)
  /\ UNCHANGED <<nextId, buf, used, pairs, at, netVars, sends, handled>>

\* A player's connection ends; the others are told, each in his time.
Leave(p) ==
  /\ p \in up \ {Server} /\ joins < MaxJoins
  /\ up' = up \ {p}
  /\ net' = [w \in Players \X Players |-> IF p \in {w[1], w[2]} THEN <<>> ELSE net[w]]
  /\ UNCHANGED <<nextId, buf, used, pairs, at, knows, joins, sends, handled>>

Forget(q, p) ==
  /\ q \in up /\ p \in knows[q] \ up
  /\ knows' = [knows EXCEPT ![q] = @ \ {p}]
  /\ UNCHANGED <<nextId, buf, used, pairs, at, net, up, joins, sends, handled>>

\* The lowest free net id is given out again: another player, or the same one, with a
\* program started anew (sithComm_Startup) or not (sithComm_ClearMsgTmpBuf alone).
Join(p) ==
  /\ p \notin up /\ joins' = joins + 1 /\ up' = up \cup {p}
  /\ knows' = [knows EXCEPT ![p] = up']
  /\ buf' = [buf EXCEPT ![p] = NoMsgs] /\ used' = [used EXCEPT ![p] = 0]
  /\ \/ UNCHANGED <<nextId, pairs, at, handled>>
     \/ /\ nextId' = [nextId EXCEPT ![p] = 1] /\ at' = [at EXCEPT ![p] = 0]
        /\ pairs' = [pairs EXCEPT ![p] = NoPairs] /\ handled' = [handled EXCEPT ![p] = <<>>]
  /\ UNCHANGED <<net, sends>>

Learn(q, p) ==
  /\ q \in up /\ p \in up \ knows[q]
  /\ knows' = [knows EXCEPT ![q] = @ \cup {p}]
  /\ UNCHANGED <<nextId, buf, used, pairs, at, net, up, joins, sends, handled>>

Next ==
  \E p \in Players :
    \/ Leave(p) \/ Join(p)
    \/ \E to \in {All} \cup (knows[p] \ {p}) : Send(p, to)
    \/ \E s \in Slots : Retry(p, s)
    \/ \E q \in Players \ {p} :
         \/ ReceiveMessage(q, p) \/ DropMessage(q, p) \/ ReceiveAnswer(p, q)
         \/ Lose(p, q) \/ Forget(q, p) \/ Learn(q, p)

Spec == Init /\ [][Next]_vars

-----------------------------------------------------------------------------
(* Properties.                                                             *)

\* Of all the slots only the first is ever taken: the search for a free one remembers
\* the oldest of those before it, and that is where the message goes.  A player who
\* sends a message before the last one is answered will not send that one again.
OnlyFirstSlot == \A p \in Players : \A s \in Slots \ {0} : buf[p][s] = Empty

\* A slot that is taken is always counted, however often it was written over, else
\* sithComm_SyncWithPlayers would never look at it again.
WaitingIsCounted ==
  \A p \in Players : used[p] >= Cardinality({s \in Slots : buf[p][s].id # NoId})

\* A message is handed over a second time only when NumPairs others came in between:
\* late and repeated copies are known by their pair as long as the table holds it.
TwiceOnlyAfterTurn ==
  \A q \in Players : \A i, j \in DOMAIN handled[q] :
    i < j /\ handled[q][i] = handled[q][j] => j - i > NumPairs

\* Who is struck off a message, by his answer, has handled it, or another one of the
\* same net id with the same number (an earlier player's, or a turn of the ids before).
StruckOffMeansTaken ==
  [][\A p, q \in Players : \A s \in Slots :
       /\ q \in buf[p][s].owed \ buf'[p][s].owed /\ q \in knows[p]
       /\ Len(net'[<<q, p>>]) < Len(net[<<q, p>>]) /\ p \in up'
       => \E k \in DOMAIN handled[q] :
            sends[handled[q][k]] = [from |-> p, id |-> buf[p][s].id]]_vars

=============================================================================
