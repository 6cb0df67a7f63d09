SPECIFICATION Spec
CONSTANTS
  Books = {b1}
  Cards = {}
  DA = DA  D7 = D7  Patron = Patron  NoVal = NoVal
  Garbled = Garbled  Empty = Empty
  Pages <- LoanPages
  Staff = {"move"}
  Refuses = {}
  BadReads = {}
  InOrder = TRUE
  Hours = FALSE
  Stale = 0  Dedup = 1  Retention = 2
  Tabs = 1  Chains = 1  Writes = 1
PROPERTIES
  PendingSurvives

