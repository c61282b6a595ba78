SPECIFICATION BookSpec
CONSTANTS
  Prices = {2, 3, 7}
  FillQuantities <- MCFillQuantities
  MaxNet = 4
  MaxCash = 40
INVARIANTS
  Reconciles
  BasisWithinPrices
PROPERTIES
  ReduceKeepsAverage
  RealizedOnlyOnClose
