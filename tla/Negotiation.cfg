CONSTANTS
  Devices <- MCDevices
  Wanted <- MCWanted
  MaxStarts = 2
  MaxPolls = 2
SPECIFICATION Spec
INVARIANT ResolvedIsSource
INVARIANT RateTruthful
INVARIANT PumpCarriesSelected
INVARIANT AnnouncedTruthful
CHECK_DEADLOCK FALSE
