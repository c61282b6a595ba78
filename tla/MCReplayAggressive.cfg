SPECIFICATION RunnerSpec
CONSTANTS
  BuyBelow = 2
  SellAbove = 4
  OrderQty = 3
  MaxAbsPosition = 4
  CancelLatency = 5
  StaleAfter = 2
  AdverseMove = 1
  NewAckLatency = 1
  CancelSendLatency = 1
  Style = "Aggressive"
  PassiveCancelAfter = 2
  Quotes <- MCQuotes
  Epoch = 0
  TickGaps = {0, 1}
  MaxTicks = 9
INVARIANTS
  LiveAgreement
  EveryEventApplied
  NoBatchOverflow
  RiskIsBounded
