SPECIFICATION Spec
CONSTANTS
  n1 = n1
  n2 = n2
  w1 = w1
  w2 = w2
  None = None
  Nodes = {n1, n2}
  Witnesses = {w1, w2}
  Controls <- TwoControls
  Orders <- TwoOrders
  RoundSize = 2
  Parameters <- OtherInterval
  Initial <- EverySix
  GenesisTime = 0
  MaxTime = 7
  MaxRestarts = 0
  MaxOversized = 0
INVARIANTS TimestampsAligned
CHECK_DEADLOCK FALSE
