SPECIFICATION ResultSpec
CONSTANTS
  BuyBelow = 2
  SellAbove = 4
  OrderQty = 2
  MaxAbsPosition = 4
  CancelLatency = 2
  StaleAfter = 2
  AdverseMove = 1
  NewAckLatency = 1
  CancelSendLatency = 1
  Style = "Passive"
  PassiveCancelAfter = 1
  Quotes <- MCQuotes
  Epoch = 0
  TickGaps = {1, 2}
  MaxTicks = 7
INVARIANTS
  CountersReconcile
  CollectorsHold
