\* Liveness: two handlers with one key, so that each waits for the other's rows.
SPECIFICATION FairSpec
CONSTANTS
  Users = {u1}
  NoUser = NoUser
  KeyIds = {k1}
  Amounts = {1, 2}
  RequestIds = {r1, r2}
  NoLock = NoLock
  NoRecord = NoRecord
  Procs = {p1, p2}
  Workers = {w1}
  StartTime = 0
  FirstEndTime = 1
  Skew = 0
  MaxClock = 2
  MaxRequests = 2
  StartPrice = 1
  PriceStep = 1
  CeilingPrice = 3
  NoCeiling = NoCeiling
  ExtendSeconds = 1
  ExtendThreshold = 1
  MaxInt64 = 3
PROPERTIES EventuallyOver HandlersReturn
