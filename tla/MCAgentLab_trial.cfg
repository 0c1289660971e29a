SPECIFICATION Spec
CONSTANTS
  Keys <- MCKeys
  AgentOf <- MCAgentOf
  Cohort = {"ada"}
  Options = {"act", "wait"}
  Answers = {"act", "refused"}
  Default = "wait"
  Deadline = 0
  Crashes = 1
  LastTick = 2
CHECK_DEADLOCK FALSE
INVARIANT LabSound
PROPERTIES
  ImplementsTurn
  
  PreparationEnds
