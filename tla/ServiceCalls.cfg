SPECIFICATION Spec
CONSTANTS
  Services = {s1}
  Blocks = {b1, b2, b3}
  Configs = {dflt, fixed}
  Removable = {dflt}
  Default = dflt
  NoConf = NoConf
  Ids = {i1, i2, i3}
  NoObj = NoObj
  Limit = 1
  Day = 1
  Ops <- MCNoClose
  InFlight = FALSE
  FlagFails = TRUE
  MaxTime = 0
SYMMETRY MCSymmetry
INVARIANTS TypeOK RemovalsPermitted OpenIsMapped OpenStoresBounded NoFileUnlinked NoFreedStoreUsed
