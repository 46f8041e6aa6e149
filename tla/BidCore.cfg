\* Two handlers, two bidders with a key each, three requests.
SPECIFICATION Spec
CONSTANTS
  Users = {u1, u2}
  NoUser = NoUser
  KeyIds = {k1}
  Amounts = {1, 2, 3}
  RequestIds = {r1}
  NoLock = NoLock
  NoRecord = NoRecord
  Procs = {p1, p2}
  Workers = {w1}
  StartTime = 0
  FirstEndTime = 2
  Skew = 0
  MaxClock = 4
  MaxRequests = 3
  StartPrice = 1
  PriceStep = 1
  CeilingPrice = 3
  NoCeiling = NoCeiling
  ExtendSeconds = 1
  ExtendThreshold = 1
  MaxInt64 = 3
SYMMETRY Symmetry
INVARIANTS SeqContiguous BidsAnnounced PriceLadder OrderIffSold
PROPERTIES ImplementsAuction
