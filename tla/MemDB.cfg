SPECIFICATION Spec
CONSTANTS
  k1 = k1
  k2 = k2
  k3 = k3
  t1 = t1
  t2 = t2
  None = None
  Discard = Discard
  Keys <- MCKeys
  Buckets <- MCBuckets
  BucketOf <- MCBucketOf
  HashOf <- MCHashOf
  KeyOrd <- MCKeyOrd
  KeySize = 1
  Base = 2
  Word = 65536
  Threads = {t1, t2}
  MNum = 2
  MapOf <- MCMapOf
  Calls <- MCCalls
  MaxCalls <- MCMaxCalls
  Prior <- MCPrior
  Apart = TRUE
INVARIANTS MapsSound IterationComplete
PROPERTIES ForeachAtomic EveryCallReturns
