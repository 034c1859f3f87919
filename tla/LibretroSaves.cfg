\* Two games to swap, three steps of progress; a state is offered twice.
CONSTANTS
  Games = {g1, g2}
  NoGame = none
  NoState = nothing
  Broken = broken
  MaxAttempts = 2
  MaxProgress = 2
SPECIFICATION Spec
INVARIANT OwnStates
PROPERTY LostOnlyUnrestored
