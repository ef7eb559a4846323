SPECIFICATION Spec
CONSTANTS
  a1 = a1
  a2 = a2
  a3 = a3
  b1 = b1
  b2 = b2
  b3 = b3
  b4 = b4
  x3 = x3
  x4 = x4
  t1 = t1
  t2 = t2
  t3 = t3
  Genesis = Genesis
  None = None
  Blocks <- ForkBlocks
  Prev <- ForkPrev
  Trxs <- ForkTrxs
  Unsound = {x3}
  Txs = {}
  Conflicts = {}
  MaxTrxs = 1
  MaxUndo = 5
  MaxRestarts = 0
  MaxQueue = 1
  ForkWindow = 8
INVARIANTS BlocksOnDisk
CHECK_DEADLOCK FALSE
