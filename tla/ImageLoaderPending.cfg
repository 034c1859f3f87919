SPECIFICATION Spec
CONSTANTS
  t1 = t1
  t2 = t2
  i1 = i1
  i2 = i2
  a = a
  b = b
  s1 = s1
  s2 = s2
  NoUrl = NoUrl
  Things = {t1, t2}
  Items = {i1, i2}
  Urls = {a, s1, s2}
  LocalUrls = {}
  Candidates <- SharedPicture
  MaxObjects = 2
  MaxPromises = 0
  MaxAnswers = 1
SYMMETRY Symmetry
INVARIANTS
  PendingIsInFlight
