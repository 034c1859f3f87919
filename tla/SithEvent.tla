----------------------------- MODULE SithEvent -----------------------------
(***************************************************************************)
(* Timed events of the engine (Gameplay/sithEvent.c), with the script      *)
(* verbs that set and kill them (Cog/sithCogFunction.c) and their part of  *)
(* a saved game: a pool of slots with a stack of the free ones, a linked   *)
(* list sorted by due time, and the loop that fires what is due, from      *)
(* which the scripts come back into the pool and the list.                 *)
(*                                                                         *)
(* Times are relative to sithTime_curMs.  When the periodic tasks run is   *)
(* abstracted: they are a point of the frame at which scripts may run.     *)
(***************************************************************************)
EXTENDS Integers, Sequences, SequencesExt, FiniteSets

CONSTANTS
  NumEvents,  \* slots of sithEvent_aEvents: 256
  Names,      \* scripts and their timers: cogIdx with timerIdx
  Killable,   \* those a script can kill: the timerIdx is above 0
  NoName,     \* a slot never used or wiped
  MaxDelay,   \* bound of the model: the longest delay of an event
  MaxStep,    \* bound of the model: the longest frame
  MaxSaved    \* bound of the model: events of a saved game

ASSUME EventsAssumption == NumEvents \in Nat \ {0} /\ NoName \notin Names
ASSUME TimesAssumption  == MaxDelay \in Nat /\ MaxStep \in Nat \ {0} /\ MaxSaved \in Nat

Slots  == 0 .. NumEvents - 1
Nil    == -1
Delays == 0 .. MaxDelay
Steps  == 1 .. MaxStep

VARIABLES
  events,   \* sithEvent_aEvents: endMs - now, timerInfo, nextTimer
  list,     \* sithEvent_list
  lut,      \* sithEvent_arrLut
  numFree,  \* sithEvent_numFreeEventBuffers
  pc,       \* where the frame is: out of sithEvent_Advance, at its tasks, at the
            \* head of its loop, in the handler of an event
  i,        \* the event whose handler runs
  saved     \* the events of the saved game

poolVars == <<events, list, lut, numFree>>
vars == <<poolVars, pc, i, saved>>

Wiped == [due |-> 0, name |-> NoName, next |-> Nil]

\* sithEvent_Reset
EmptyPool ==
  [events |-> [s \in Slots |-> Wiped], list |-> Nil,
   lut |-> [k \in Slots |-> NumEvents - 1 - k], numFree |-> NumEvents]

Pool == [events |-> events, list |-> list, lut |-> lut, numFree |-> numFree]

Becomes(p) ==
  events' = p.events /\ list' = p.list /\ lut' = p.lut /\ numFree' = p.numFree

Init ==
  /\ events = EmptyPool.events /\ list = Nil /\ lut = EmptyPool.lut /\ numFree = NumEvents
  /\ pc = "out" /\ i = Nil /\ saved = <<>>

-----------------------------------------------------------------------------
(* The pool and the list.                                                  *)

\* The slots of the list in order from the slot w[1] on, w[2] of them at most.
From(p) ==
  LET from[w \in (Slots \cup {Nil}) \X (0 .. NumEvents)] ==
        IF w[1] = Nil \/ w[2] = 0 THEN <<>>
        ELSE <<w[1]>> \o from[<<p.events[w[1]].next, w[2] - 1>>]
  IN  from

\* The slots of the list in order, for as long as it can be without a circle.
Chain(p) == From(p)[<<p.list, NumEvents>>]

\* sithEvent_Kill
Killed(p, s) ==
  [p EXCEPT !.events[s] = Wiped, !.lut[p.numFree] = s, !.numFree = @ + 1]

\* sithEvent_Set: how many events of the list c are due no later than w.
Before(p, c, w) ==
  LET k == SelectInSeq(c, LAMBDA s : p.events[s].due >= w) IN IF k = 0 THEN Len(c) ELSE k - 1

NotLater(p, c, w) ==
  LET k == SelectInSeq(c, LAMBDA s : p.events[s].due > w) IN IF k = 0 THEN Len(c) ELSE k - 1

\* The new event follows the last one due no later.
WithEvent(p, n, w) ==
  LET s == p.lut[p.numFree - 1]
      c == Chain(p)
      k == NotLater(p, c, w)
      new(v) == [due |-> w, name |-> n, next |-> v]
  IN  IF p.numFree = 0 THEN p
      ELSE IF k = 0
        THEN [p EXCEPT !.numFree = @ - 1, !.events[s] = new(p.list), !.list = s]
        ELSE [p EXCEPT !.numFree = @ - 1, !.events[s] = new(p.events[c[k]].next),
                       !.events[c[k]].next = s]

\* sithCogFunction_KillTimerEx: one turn of its loop.  s is the event looked at, the code's
\* v2, and b the one before it that is still in the list, v3.
Unlinked(p, b, v) == IF b = Nil THEN [p EXCEPT !.list = v] ELSE [p EXCEPT !.events[b].next = v]

ForgetfulPassed(n, t) ==
  LET v == t.pool.events[t.s].next
  IN  IF t.s = Nil THEN t
      ELSE IF t.pool.events[t.s].name # n THEN [pool |-> t.pool, b |-> t.s, s |-> v]
      ELSE [pool |-> Killed(Unlinked(t.pool, t.b, v), t.s), b |-> t.s, s |-> v]

Passed(n, t) ==
  LET v == t.pool.events[t.s].next
  IN  IF t.s = Nil THEN t
      ELSE IF t.pool.events[t.s].name # n THEN [pool |-> t.pool, b |-> t.s, s |-> v]
      ELSE [pool |-> Killed(Unlinked(t.pool, t.b, v), t.s), b |-> t.b, s |-> v]

\* As many turns as the list can have.
Turns(p, n) ==
  LET turn[k \in 0 .. NumEvents] ==
        IF k = 0 THEN [pool |-> p, b |-> Nil, s |-> p.list] ELSE Passed(n, turn[k - 1])
  IN  turn

WithoutEvents(p, n) == Turns(p, n)[NumEvents].pool

-----------------------------------------------------------------------------
(* The verbs, which a script may use in the handler of an event, in the    *)
(* task, or elsewhere in the frame.                                        *)

SetTimerEx(n, w) ==
  /\ pc # "loop" /\ Becomes(WithEvent(Pool, n, w))
  /\ UNCHANGED <<pc, i, saved>>

KillTimerEx(n) ==
  /\ n \in Killable
  /\ pc # "loop" /\ Becomes(WithoutEvents(Pool, n))
  /\ UNCHANGED <<pc, i, saved>>

-----------------------------------------------------------------------------
(* The frame: time goes on, then sithEvent_Advance.                        *)

Tick ==
  /\ pc = "out" /\ pc' = "tasks"
  /\ \E d \in Steps :
       events' = [s \in Slots |-> IF s \in Range(Chain(Pool))
                                     THEN [events[s] EXCEPT !.due = @ - d] ELSE events[s]]
  /\ UNCHANGED <<list, lut, numFree, i, saved>>

\* The periodic tasks come before the events.
RunTasks ==
  /\ pc = "tasks" /\ pc' = "loop"
  /\ UNCHANGED <<poolVars, i, saved>>

\* The first event is taken off the list, and its slot stays taken while it is handled.
FireFirst ==
  /\ pc = "loop" /\ list # Nil /\ events[list].due < 0
  /\ list' = events[list].next /\ i' = list /\ pc' = "handler"
  /\ UNCHANGED <<events, lut, numFree, saved>>

HandlerReturns ==
  /\ pc = "handler" /\ pc' = "loop"
  /\ Becomes(Killed(Pool, i)) /\ i' = Nil
  /\ UNCHANGED saved

NoneDue ==
  /\ pc = "loop" /\ (list # Nil => events[list].due >= 0)
  /\ pc' = "out"
  /\ UNCHANGED <<poolVars, i, saved>>

-----------------------------------------------------------------------------
(* Saved games: the events are written in the order of the list, and set   *)
(* one after the other on an empty pool.                                   *)

Shown(e) == [due |-> e.due, name |-> e.name]

Listed(p) == LET c == Chain(p) IN [k \in DOMAIN c |-> Shown(p.events[c[k]])]

Save ==
  /\ pc = "out" /\ Len(Chain(Pool)) <= MaxSaved
  /\ saved' = Listed(Pool)
  /\ UNCHANGED <<poolVars, pc, i>>

Restored(es) ==
  LET after[k \in 0 .. Len(es)] ==
        IF k = 0 THEN EmptyPool ELSE WithEvent(after[k - 1], es[k].name, es[k].due)
  IN  after

Load ==
  /\ pc = "out"
  /\ Becomes(Restored(saved)[Len(saved)])
  /\ UNCHANGED <<pc, i, saved>>

\* sithEvent_Close: the level is left.
Close ==
  /\ pc = "out" /\ Becomes(EmptyPool)
  /\ UNCHANGED <<pc, i, saved>>

Next ==
  \/ \E n \in Names : KillTimerEx(n) \/ \E w \in Delays : SetTimerEx(n, w)
  \/ Tick \/ RunTasks \/ FireFirst \/ HandlerReturns \/ NoneDue \/ Save \/ Load \/ Close

Spec == Init /\ [][Next]_vars

-----------------------------------------------------------------------------
(* Properties.                                                             *)

\* Every slot is in one place: in the list, on the stack of the free ones, or with the
\* event that is handled.  A slot lost is an event less until the level ends; one in two
\* places would tie the list into a circle.
EverySlotOnce ==
  LET free  == {lut[k] : k \in 0 .. numFree - 1}
      inUse == Range(Chain(Pool)) \cup ({i} \ {Nil})
  IN  /\ free \cap inUse = {} /\ free \cup inUse = Slots
      /\ Cardinality(free) = numFree /\ i \notin Range(Chain(Pool))
      /\ Len(Chain(Pool)) = Cardinality(Range(Chain(Pool)))

Promise == INSTANCE Timers WITH pending <- Listed(Pool), Capacity <- NumEvents,
                                firing <- IF pc = "handler" THEN 1 ELSE 0

\* However scripts set and kill events from inside the loop that fires them, pool and
\* list do what Timers promises.
KeepsThePromise == Promise!Spec

=============================================================================
