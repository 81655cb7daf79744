SPECIFICATION Spec
CONSTANTS
  Services = {s1, s2}
  Blocks = {b1, b2}
  Configs = {dflt}
  Removable = {dflt}
  Default = dflt
  NoConf = NoConf
  Ids = {i1, i2}
  NoObj = NoObj
  Limit = 1
  Day = 1
  Ops <- MCAllOps
  InFlight = TRUE
  FlagFails = FALSE
  MaxTime = 0
SYMMETRY MCSymmetry
INVARIANT NoFileUnlinked
