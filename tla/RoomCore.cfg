SPECIFICATION Spec
CONSTANTS
  Log <- ExtendedLog
  Unknown = Unknown
  NoAuction = NoAuction
  Slots = {s1, s2}
  NoTask = NoTask
  PageSize = 1
  Pages = 2
  Window = 2
  MaxWire = 1
  Faulty = TRUE
SYMMETRY Symmetry
INVARIANTS InStep
