------------------------------- MODULE Timers -------------------------------
(***************************************************************************)
(* What timed events promise the scripts of the game: an event set with a  *)
(* delay is pending until it is fired or killed; events fire one at a      *)
(* time, in the order of their due times, those of one time in the order   *)
(* they were set; time goes on only when none is overdue; a saved game has *)
(* the same events pending in the same order when it is loaded.            *)
(*                                                                         *)
(* Due times are relative to now.                                          *)
(***************************************************************************)
EXTENDS Integers, Sequences, SequencesExt

CONSTANTS
  Names,    \* what tells events apart: script and timer
  Delays,   \* delays of events
  Steps,    \* lengths of a frame
  Capacity  \* events that may be pending or firing

VARIABLES
  pending,  \* the events to come
  firing,   \* how many are being fired: one or none
  saved     \* those of the saved game

vars == <<pending, firing, saved>>

Init == pending = <<>> /\ firing = 0 /\ saved = <<>>

\* q is p with e behind the events due no later, and ahead of those due later.
Inserted(p, q, e) ==
  \E k \in 0 .. Len(p) : /\ q = InsertAt(p, k + 1, e)
                         /\ \A j \in 1 .. k : p[j].due <= e.due
                         /\ \A j \in k + 1 .. Len(p) : p[j].due > e.due

\* q is what p has at the positions of S, in order.
Picked(p, q, S) ==
  \E f \in [DOMAIN q -> DOMAIN p] :
     /\ Range(f) = S
     /\ \A j, k \in DOMAIN q : j < k => f[j] < f[k]
     /\ \A k \in DOMAIN q : q[k] = p[f[k]]

Set(n, w) ==
  /\ UNCHANGED <<firing, saved>>
  /\ IF Len(pending) + firing < Capacity
       THEN Inserted(pending, pending', [due |-> w, name |-> n]) ELSE pending' = pending

Kill(n) ==
  /\ UNCHANGED <<firing, saved>>
  /\ Picked(pending, pending', {k \in DOMAIN pending : pending[k].name # n})

Fire ==
  /\ firing = 0 /\ pending # <<>> /\ Head(pending).due < 0
  /\ firing' = 1 /\ pending' = Tail(pending)
  /\ UNCHANGED saved

Fired ==
  /\ firing = 1 /\ firing' = 0
  /\ UNCHANGED <<pending, saved>>

Tick(d) ==
  /\ firing = 0 /\ \A k \in DOMAIN pending : pending[k].due >= 0
  /\ pending' = [k \in DOMAIN pending |-> [pending[k] EXCEPT !.due = @ - d]]
  /\ UNCHANGED <<firing, saved>>

Save == firing = 0 /\ saved' = pending /\ UNCHANGED <<pending, firing>>

Load == firing = 0 /\ pending' = saved /\ UNCHANGED <<firing, saved>>

\* The level is left.
Clear == firing = 0 /\ pending' = <<>> /\ UNCHANGED <<firing, saved>>

Next ==
  \/ Fire \/ Fired \/ Save \/ Load \/ Clear
  \/ \E n \in Names : Kill(n) \/ \E w \in Delays : Set(n, w)
  \/ \E d \in Steps : Tick(d)

Spec == Init /\ [][Next]_vars

=============================================================================
