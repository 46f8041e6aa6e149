SPECIFICATION FairSpec
CONSTANTS
  Log <- EndedLog
  Unknown = Unknown
  NoAuction = NoAuction
  Slots = {s1}
  NoTask = NoTask
  PageSize = 2
  Pages = 2
  Window = 3
  MaxWire = 1
  Faulty = FALSE
INVARIANTS NothingInvented CountExplained
PROPERTY PollingCatchesUp
