SPECIFICATION Spec
CONSTANTS
  Services = {s1}
  Blocks = {b1, b2}
  Configs = {dflt}
  Removable = {dflt}
  Default = dflt
  NoConf = NoConf
  Ids = {i1, i2}
  NoObj = NoObj
  Limit = 1
  Day = 1
  Ops <- MCTwoOps
  InFlight = FALSE
  FlagFails = FALSE
  MaxTime = 0
SYMMETRY MCSymmetry
INVARIANT ServedByOpenBlock
