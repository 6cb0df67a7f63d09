SPECIFICATION Spec
CONSTANTS
  t1 = t1
  t2 = t2
  DA = DA
  D7 = D7
  book = book
  card = card
  Tags = {t1, t2}
  Afis = {DA, D7}
  Datas = {book, card}
  Torn = Torn
  NoVal = NoVal
  Handlers = {h1, h2}
  Nobody = Nobody
  BadAfi = BadAfi
  TooLong = TooLong
  Garbled = Garbled
  AfiOf <- AfiOfContent
  Requests <- Writes
  FailLimit = 3
  ScanTries = 3
  MaxFaults = 0
  MaxCrashes = 1
INVARIANTS
  PortExclusive
  SecureIsExact
  ProgramIsHonest
  TornTagsAreSuspect
