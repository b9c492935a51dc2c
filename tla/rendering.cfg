CONSTANTS
  a = a
  b = b
  Tabs = {t1}
  Threads = {th1, th2}
  Searches = {s1}
  Contents = {a, b}
  Hits <- HitsOf
  Bytes <- TwoPages
  CacheBytes = 2
  MaxSearchHits = 2
  TextRoom = 1
  MaxDocs = 2
  MaxAsked = 2
SPECIFICATION Spec
INVARIANTS PictureIsOfItsVersion SearchIsOfOneVersion
PROPERTIES RequestsAnswered
CHECK_DEADLOCK FALSE
