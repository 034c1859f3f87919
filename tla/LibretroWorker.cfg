SPECIFICATION FairSpec
CONSTANTS
  Games = {g1, g2}
  NoGame = NoGame
  MaxWake = 2
INVARIANTS
  TypeOK
  WorkerInv
  NoLostWakeup
  GLWaitIsServed
  OneLoadInFlight
  TrueMeansLoaded
  NothingOutlivesTheHost
PROPERTIES
  CallsReturn
  FramesDrain
