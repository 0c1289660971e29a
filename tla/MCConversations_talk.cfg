SPECIFICATION Spec
CONSTANTS
  Companies = {"bolt", "crux"}
  FounderOf <- MCFounderOf
  Partners <- MCPartners
  Terms = {"low", "high"}
  MaxTurns = 4
  TokenBudget = 6
  Costs = {1, 4}
  Lifetime = 5
  Cooldown = 2
  PassLength = 5
  InitialTies <- MCTies
  LastTick = 8
INVARIANTS TalksSound
PROPERTIES WaitsOnlyForATurnTaken TiesFollowTalks ImplementsTalk
CHECK_DEADLOCK FALSE
