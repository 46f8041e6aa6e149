SPECIFICATION Spec
CONSTANTS
  Users = {u1}
  NoUser = NoUser
  Requests = {r1, r2}
  Prices = {0, 2}
  Steps = {1}
  Starts = {1, 2}
  Durations = {1}
  BidAmounts = {1, 2}
  NotGiven = NotGiven
  NoCeiling = NoCeiling
  ExtendSeconds = 1
  ExtendThreshold = 1
  MaxInt64 = 7
  Skew = 1
  MaxClock = 3
SYMMETRY Symmetry
INVARIANTS PriceWithinRules
PROPERTIES RulesFrozen
