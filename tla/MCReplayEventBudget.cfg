SPECIFICATION ResultSpec
CONSTANTS
  BuyBelow = 2
  SellAbove = 4
  OrderQty = 3
  MaxAbsPosition = 9
  CancelLatency = 2
  StaleAfter = 2
  AdverseMove = 1
  NewAckLatency = 1
  CancelSendLatency = 1
  Style = "Aggressive"
  PassiveCancelAfter = 1
  Quotes <- MCQuotes
  Epoch = 0
  TickGaps = {1}
  MaxTicks = 9
INVARIANTS
  NoLatencyOverflow
