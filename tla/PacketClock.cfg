CONSTANTS
  Rates = {3, 5, 11, 13, 15}
  PacketRates = {4, 8, 15}
  Physical = {1, 2, 3}
  Raws = {0, 1, 3, 6, 7, 8, 13}
  Interval = 1
  InitialPackets = 1
  One = 4
  Word = 16
  MaxPackets = 32
  MaxFeedback = 5
SPECIFICATION ClockSpec
INVARIANT NominalExact
INVARIANT FeedbackExact
