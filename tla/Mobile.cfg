SPECIFICATION Spec
CONSTANTS
  Auctions = {"cheap", "dear"}
  FirstPrice <- Prices
  Step = 1
  Typed = {2}
  None = None
  Slots = {c1, c2}
  MaxPrice = 1
SYMMETRY Symmetry
INVARIANTS SignedInHasToken ButtonTells ChargedOnce
