SPECIFICATION FairSpec
CONSTANTS
  Books = {b1}
  Cards = {c1}
  DA = DA  D7 = D7  Patron = Patron  NoVal = NoVal
  Garbled = Garbled  Empty = Empty
  Pages <- LivePages
  Staff = {"open", "tab"}
  Refuses = {"checkin"}
  BadReads = {"afi"}
  InOrder = TRUE
  Hours = FALSE
  Stale = 0  Dedup = 2  Retention = 3
  Tabs = 1  Chains = 1  Writes = 1
PROPERTIES
  CheckinIsNotForgotten
  PendingIsWritten

