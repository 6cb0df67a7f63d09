SPECIFICATION FairSpec
CONSTANTS
  Tags = {t1, t2}
  Malformed = {}
  Afis = {DA, D7}
  Datas = {b1}
  Torn = Torn
  NoVal = NoVal
  FailLimit = 3
  AfiRetries = 2
  VerifyRetries = 2
  LinkFaults = {"crc"}
  MaxFaults = 2
INVARIANTS
  TypeOK
  InSync
  WriteAfiVerified
  WriteBlocksVerified
  ReadsAreFresh
PROPERTIES
  DriverImplementsContract
  CallReturns
  PortRecovers
