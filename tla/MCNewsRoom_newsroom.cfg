SPECIFICATION NewsSpec
CONSTANTS
  a1 = a1
  Agent = {a1}
  ActionCap = 3
  DecisionCap = 2
  Threshold = 2
  Cooldown = 1
  MaxTick = 4
  Journalists <- MCJournalists
  StoryCap = 2
  Cadence = 2
  Lookback = 2
  DigestLimit = 3
  Kinds <- MCKinds
  EventSets <- MCEventSets
  Seed <- MCSeed
INVARIANT NewsSound
PROPERTY AgentsKept
CHECK_DEADLOCK FALSE
