SPECIFICATION Spec
CONSTANTS
  a1 = a1
  a2 = a2
  a3 = a3
  b1 = b1
  b2 = b2
  b3 = b3
  b4 = b4
  x3 = x3
  x4 = x4
  t1 = t1
  t2 = t2
  t3 = t3
  Genesis = Genesis
  None = None
  Blocks <- LineBlocks
  Prev <- LinePrev
  Trxs <- LineTrxs
  Unsound = {x3, x4}
  Txs = {t1, t2, t3}
  Conflicts <- TxConflicts
  MaxTrxs = 2
  MaxUndo = 3
  MaxRestarts = 2
  MaxQueue = 3
  ForkWindow = 2
INVARIANTS StateIsReplay DiskIsChain PendingBlockApplies
CHECK_DEADLOCK FALSE
