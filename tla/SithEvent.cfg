\* Three slots, so that an event can be set and killed between two others while a fourth is
\* refused; due times that tie, so that one frame makes several events due.
CONSTANTS
  NumEvents = 3
  Names = {a, b}
  Killable = {a, b}
  NoName = none
  MaxDelay = 1
  MaxStep = 1
  MaxSaved = 2
SYMMETRY Symmetry
SPECIFICATION Spec
INVARIANTS EverySlotOnce
PROPERTIES KeepsThePromise
