SPECIFICATION Spec
CONSTANTS
  k1 = k1
  k2 = k2
  k3 = k3
  k4 = k4
  None = None
  Discard = Discard
  Keys <- MCKeys
  Buckets <- MCBuckets
  BucketOf <- MCBucketOf
  HashOf <- MCHashOf
  KeyOrd <- MCKeyOrd
  KeySize = 1
  Base = 2
  Word = 65536
  Unit = 2
  Period = 2
  Kinds = {"map", "tree", "list"}
  TreeKeys = {1, 2, 3, 4, 5}
  Elems = {1, 2}
  Vals <- MCVals
  Plain <- MCPlain
  MaxVaried = 1
  Maxes = {2, 5}
  MaxNum = 3
  MaxSlots = 7
  ElemSize = 2
INVARIANTS MapIsSound TreeIsSound
PROPERTIES MapImplements TreeImplements ListImplements
VIEW WithoutAnswer
