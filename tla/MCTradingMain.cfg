SPECIFICATION MainSpec
CONSTANTS
  Inputs <- MCInputs
  MaxEvents = 3
INVARIANTS
  SuccessMeansCompleteJournal
  FirstErrorReported
  BadInputKeepsOldJournal
