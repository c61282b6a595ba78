SPECIFICATION HostileSpec
CONSTANTS
  SubmitQuantities <- MCSubmitQuantities
  VenueOrderIds <- MCVenueOrderIds
  FillQuantities <- MCFillQuantities
  FillPrices <- MCFillPrices
INVARIANT TerminalHasNoLeaves
