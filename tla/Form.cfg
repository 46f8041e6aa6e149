SPECIFICATION FormSpec
CONSTANTS
  Typed <- SomeFields
  Second = 2
  MaxInt64 = 2
  Uploads = {u1, u2}
  MaxImages = 2
  RowImages = {1}
  Empty = Empty
  Skew = 1
  LastInstant = 1
SYMMETRY Symmetry
INVARIANTS OnlyLateTooMany
PROPERTIES RefusalsExplained
CHECK_DEADLOCK FALSE
