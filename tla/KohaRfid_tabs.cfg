SPECIFICATION Spec
CONSTANTS
  Books = {b1}
  Cards = {}
  DA = DA  D7 = D7  Patron = Patron  NoVal = NoVal
  Garbled = Garbled  Empty = Empty
  Pages <- LoanPages
  Staff = {"move", "open", "reset"}
  Refuses = {"checkin"}
  BadReads = {"afi"}
  InOrder = TRUE
  Hours = FALSE
  Stale = 0  Dedup = 2  Retention = 3
  Tabs = 2  Chains = 1  Writes = 1
PROPERTIES
  CheckinIsNotForgotten
  OneSubmitPerWindow
