SPECIFICATION Spec
CONSTANTS
  MaxFsiz = 6
  MaxLog = 3
  Lens = {1, 2}
  LogFails = {"file"}
  CommitFails = FALSE
  Leftovers = {}
INVARIANTS
  EndsAgree
  PoolIsFree
PROPERTIES
  TransactionsAtomic
