SPECIFICATION Spec
CONSTANTS
  Sellers = {"ming", "shop"}
  Buyers = {"zhang"}
  Seed = {"ming", "zhang"}
  Fixture <- TwoAuctions
  Lifetime = 1
  Step = 1
  Extend = 2
  Threshold = 1
  None = None
  E401 = E401
  Refused = Refused
  MaxClock = 3
  Tabs = {"active", "ended"}
  Slots = {c1, c2}
SYMMETRY Symmetry
INVARIANTS OrdersAreSales SessionSigns LoadingEnds CelebratesTrue
