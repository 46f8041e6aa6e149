\* Two instances, two auctions, channels of two, two failures to give up.
SPECIFICATION FairSpec
CONSTANTS
  Auctions = {a1, a2}
  Publishers = {p1, p2}
  MaxRetries = 2
  Buffer = 2
  MaxRows = 2
INVARIANTS SentInOrder OneHolder PublishedWasSent RetryBudget
PROPERTIES EveryEventSettles
