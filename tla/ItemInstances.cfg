SPECIFICATION Spec
CONSTANTS
  Items = {i1, i2}
  NoItem = NoItem
  Browsers = {b1, b2}
  Hud = Hud
  NoInstance = NoInstance
  Things = {t1, t2}
  NoThing = NoThing
  MaxObjects = 2
  MaxPending = 1
SYMMETRY Symmetry
INVARIANTS TypeOK TaskTable NoDanglingTarget OneLibretro OneModal SpawnPageServed
PROPERTIES EraseKeepsSelection SharedItemKept
