SPECIFICATION Spec
CONSTANTS
  k1 = k1
  k2 = k2
  k3 = k3
  k4 = k4
  a = a
  AtomSize = 3
  Absent = Absent
  NoKey = NoKey
  Keys <- MCKeys3
  Buckets <- MCTwoBuckets
  BucketOf <- MCBucketOf2
  HashOf <- MCHashOf
  KeyOrd <- MCKeyOrd
  ValSize <- MCValSize
  Vals <- MCUpTo2
  HeadSize = 3
  KeySize = 1
  Align = 4
  Frec = 4
  FbpMax = 1
  SaveMax = 1
  AlwRat = 2
  MgFreq = 2
  MaxPad = 4
  DfUnit = 1
  Traced = FALSE
  Steps = {1, 2}
  RunSteps = 2
  MaxFsiz = 28
INVARIANTS LayoutSound FreeBlocksSound CursorsOnSegments
PROPERTIES OnlyDataGrows ImplementsDictionary
VIEW WithoutAnswer
CONSTRAINT Narrow
