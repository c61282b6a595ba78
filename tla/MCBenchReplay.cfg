SPECIFICATION BenchSpec
CONSTANTS
  SizeMax = 1048575
  SamplesMax = 65535
  Workloads <- MCWorkloads
  Checksums = {1, 2}
INVARIANTS
  CapacityExact
  AggregatesHoldEveryTrial
  OkMeansSameEvents
  EstimatorsMatchReference
