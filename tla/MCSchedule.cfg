SPECIFICATION Spec
CONSTANTS
  n1 = n1
  n2 = n2
  w1 = w1
  w2 = w2
  None = None
  Nodes = {n1, n2}
  Witnesses = {w1, w2}
  Controls <- TwoControls
  Orders <- TwoOrders
  RoundSize = 2
  Parameters <- OtherMaintenance
  Initial <- EverySix
  GenesisTime = 0
  MaxTime = 8
  MaxRestarts = 1
  MaxOversized = 1
INVARIANTS NodesAgree HeadKeepsUp Converges MaintenanceAhead
CHECK_DEADLOCK FALSE
