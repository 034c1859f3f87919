\* The bounds of LibretroSaves.cfg.
CONSTANTS
  Games = {g1, g2}
  NoGame = none
  NoState = nothing
  Broken = broken
  MaxAttempts = 2
  MaxProgress = 2
SPECIFICATION Spec
PROPERTY ProgressKept
