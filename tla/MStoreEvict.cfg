SPECIFICATION Spec
CONSTANTS
  k1 = k1
  k2 = k2
  k3 = k3
  Keys <- MCKeys3
  Buckets <- MCOneBucket
  BucketOf <- MCBucketOf
  HashOf <- MCHashOf
  KeyOrd <- MCKeyOrd
  ValSize <- MCValSize
  HeadSize = 3
  KeySize = 1
  Align = 4
  Frec = 4
  FbpMax = 2
  SaveMax = 1
  AlwRat = 2
  MgFreq = 2
  MaxPad = 100
  DfUnit = 0
  Traced = FALSE
  Lens = {0, 4}
  Packed <- MCPacked
  Stretch = 2
  HeadLen = 3
  Sizes = {8, 12, 28}
  MinLen = 12
  RateNum = 1
  RateDen = 2
  Word = 65536
  Shrinks = FALSE
  MaxTime = 1
  MaxFsiz = 40
INVARIANTS FileSound QuotaKept
PROPERTIES EvictsOldest EvictsItsShare ResizeHonest
VIEW WithoutAnswer
