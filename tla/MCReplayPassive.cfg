SPECIFICATION RunnerSpec
CONSTANTS
  BuyBelow = 2
  SellAbove = 4
  OrderQty = 3
  MaxAbsPosition = 4
  CancelLatency = 5
  StaleAfter = 2
  AdverseMove = 1
  NewAckLatency = 1
  CancelSendLatency = 1
  Style = "Passive"
  PassiveCancelAfter = 2
  Quotes <- MCQuotes
  Epoch <- MCEpoch
  TickGaps = {0, 1, 4}
  MaxTicks = 7
INVARIANTS
  RunnerTypeOK
  GatewayAgreesWithOms
  OnlyCancelAnswersRefused
  StrandedOnlyByCancelRace
  PositionFollowsOrder
  JournalFollowsOms
  NoOverdueAnswer
  CancelOnlyWhenAged
  AgedOrderIsCanceled
PROPERTIES
  RefinesTradingDesk
