SPECIFICATION FairSpec
CONSTANTS
  s1 = s1
  s2 = s2
  DA = DA
  D7 = D7
  bad = bad
  book = book
  empty = empty
  Sids = {s1, s2}
  Contents = {book, empty}
  Empty = empty
  Secure = DA
  Unsecure = D7
  Malformed = bad
  Posts <- ThePosts
  Inventories <- TheLists
  Ops <- TheOps
  Counts = {2}
  Handlers = {h1, h2}
  ScanTries = 3
  MaxControls = 3
INVARIANTS
  TypeOK
  NoMixUp
PROPERTIES
  RemovedIsGone
  ScansRecover
