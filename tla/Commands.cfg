SPECIFICATION FairSpec
CONSTANTS
  t1 = t1
  t2 = t2
  Tags = {t1}
  NoTag = NoTag
  NoOne = NoOne
  Unread = Unread
  Uncertain = Uncertain
  BlockReads <- TheReads
  Commands <- TheCommands
  Barcodes <- TheBarcodes
  FirstAfi = 218
  Stops = {2, 4}
  MaxTears = 1
INVARIANTS
  TypeOK
  ShownIsProgrammed
  DoneMeansProgrammed
PROPERTIES
  EventsAlternate
  SignalEndsScan
  OneShotEnds
