CONSTANTS
  MinGraphQuantum = 2
  MaxGraphQuantum = 8
  MaxPeriodMultiplier = 2
  SampleRate = 3
  PacketsPerTransfer = 1
  PacketsPerSecond = 2
  CaptureWave = 2
  Transfers = 2
  DefaultRing = 8
  DefaultQuantum = 2
  RingSizes = {8}
  Plans = {1, 2}
  FirstPlans <- MCFirstPlans
  Quanta = {2}
  Multipliers = {1}
  Requests <- MCRequests
  Watermarks = {12}
  Reserve = 0
  Policy = 1
  EarlyStarts = 1
SPECIFICATION FairSpec
INVARIANT LedgerExact
INVARIANT LeadBounded
INVARIANT DriftBounded
INVARIANT LateDrainAbsorbed
PROPERTY PlaybackStarts
PROPERTY AdmissionProgress
