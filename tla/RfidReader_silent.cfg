SPECIFICATION FairSpec
CONSTANTS
  Tags = {t1}
  Malformed = {}
  Afis = {DA, D7}
  Datas = {b1}
  Torn = Torn
  NoVal = NoVal
  FailLimit = 3
  AfiRetries = 2
  VerifyRetries = 2
  LinkFaults = {"silent"}
  MaxFaults = 1
PROPERTIES
  StuckReaderIsReset
