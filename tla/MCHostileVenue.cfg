SPECIFICATION HostileSpec
CONSTANTS
  SubmitQuantities <- MCSubmitQuantities
  VenueOrderIds <- MCVenueOrderIds
  FillQuantities <- MCFillQuantities
  FillPrices <- MCFillPrices
INVARIANTS
  HostileTypeOK
  QuantitiesConsistent
  ExecutedIsCum
PROPERTIES
  OrderLifetime
