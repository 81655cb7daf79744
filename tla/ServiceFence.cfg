SPECIFICATION Spec
CONSTANTS
  Services = {s1, s2}
  Blocks = {b1, b2}
  Configs = {dflt}
  Removable = {dflt}
  Default = dflt
  NoConf = NoConf
  Ids = {i1}
  NoObj = NoObj
  Limit = 0
  Day = 2
  Ops <- MCClose
  InFlight = TRUE
  FlagFails = FALSE
  MaxTime = 4
SYMMETRY MCSymmetry
PROPERTY CrashLoopBroken
