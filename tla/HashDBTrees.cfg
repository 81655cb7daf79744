SPECIFICATION Spec
CONSTANTS
  k1 = k1
  k2 = k2
  k3 = k3
  k4 = k4
  a = a
  AtomSize = 3
  Absent = Absent
  NoKey = NoKey
  Keys <- MCKeys4
  Buckets <- MCOneBucket
  BucketOf <- MCBucketOf1
  HashOf <- MCHashOf
  KeyOrd <- MCKeyOrd
  ValSize <- MCValSize
  Vals <- MCUpTo1
  HeadSize = 3
  KeySize = 1
  Align = 4
  Frec = 4
  FbpMax = 1
  SaveMax = 1
  AlwRat = 2
  MgFreq = 2
  MaxPad = 100
  DfUnit = 0
  Traced = TRUE
  Steps = {}
  RunSteps = 2
  MaxFsiz = 20
INVARIANTS TreesSound WalkSound
CONSTRAINT OneDoubt
VIEW WithoutCount
