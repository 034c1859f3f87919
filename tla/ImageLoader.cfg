SPECIFICATION Spec
CONSTANTS
  t1 = t1
  t2 = t2
  i1 = i1
  i2 = i2
  a = a
  b = b
  s1 = s1
  s2 = s2
  NoUrl = NoUrl
  Things = {t1}
  Items = {i1}
  Urls = {a, b, s1}
  LocalUrls = {b}
  Candidates <- OnePicture
  MaxObjects = 1
  MaxPromises = 2
  MaxAnswers = 2
INVARIANTS
  TypeOK
  CaptureIsShown
  OneUrlJob
  PromisesKept
  PixelsHaveFile
