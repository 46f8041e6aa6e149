\* One bidder who retries under two keys, skewed clocks, no ceiling, and prices
\* next to the largest BIGINT: 4 + 2 is out of range.
SPECIFICATION Spec
CONSTANTS
  Users = {u1}
  NoUser = NoUser
  KeyIds = {k1, k2}
  Amounts = {2, 4, 5}
  RequestIds = {r1, r2}
  NoLock = NoLock
  NoRecord = NoRecord
  Procs = {p1, p2}
  Workers = {w1, w2}
  StartTime = 0
  FirstEndTime = 3
  Skew = 1
  MaxClock = 4
  MaxRequests = 2
  StartPrice = 0
  PriceStep = 2
  CeilingPrice = NoCeiling
  NoCeiling = NoCeiling
  ExtendSeconds = 1
  ExtendThreshold = 2
  MaxInt64 = 5
SYMMETRY RetrySymmetry
INVARIANTS IdempotentOnce RepliesTrue ResponseWindow NoLateBid LockedBidStands 
