SPECIFICATION Spec
CONSTANTS
  Slots = {t1, t2, t3, t4}
  Swept = {}
  NoThing = NoThing
  Models = {m1, m2}
  Screenless = {m2}
  Engine = Engine
  NoModel = NoModel
  Scales = {1}
  NumKeys = 2
  MaxWaiting = 1
  Occurs = {}
SYMMETRY Symmetry
INVARIANTS CollisionRestored
