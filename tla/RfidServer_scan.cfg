SPECIFICATION FairSpec
CONSTANTS
  t1 = t1
  t2 = t2
  DA = DA
  D7 = D7
  book = book
  card = card
  Tags = {t1}
  Afis = {DA, D7}
  Datas = {card}
  Torn = Torn
  NoVal = NoVal
  Handlers = {h1, h2}
  Nobody = Nobody
  BadAfi = BadAfi
  TooLong = TooLong
  Garbled = Garbled
  AfiOf <- AfiOfContent
  Requests <- ScansAndWrites
  FailLimit = 3
  ScanTries = 3
  MaxFaults = 1
  MaxCrashes = 0
INVARIANTS
  TypeOK
  ScanIsSnapshot
  ScanHeals
PROPERTIES
  EveryRequestIsAnswered
