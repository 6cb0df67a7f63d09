SPECIFICATION Spec
CONSTANTS
  Books = {b1}
  Cards = {}
  DA = DA  D7 = D7  Patron = Patron  NoVal = NoVal
  Garbled = Garbled  Empty = Empty
  Pages <- DeskPages
  Staff = {"buttons"}
  Refuses = {"checkin", "patron"}
  BadReads = {"blocks"}
  InOrder = FALSE
  Hours = FALSE
  Stale = 0  Dedup = 2  Retention = 3
  Tabs = 1  Chains = 2  Writes = 1
INVARIANTS
  TypeOK
  PollingGoesOn
PROPERTIES
  OneSubmitPerWindow

