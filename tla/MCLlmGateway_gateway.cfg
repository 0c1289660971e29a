\* Two days of a conversation; two answers may exhaust the run or the day, and the
\* switches are thrown twice.
SPECIFICATION Spec
CONSTANTS
  bob = bob
  conversations = conversations
  Agent = {bob}
  Module = {conversations}
  Schedule <- Conversation
  Usages <- DearOrLong
  Ceiling = 6
  Allowance = 6
  MaxCost = 4
  MaxTokens = 4
  MaxTick = 2
  MaxControls = 2
INVARIANTS
  CountersAgree
  BudgetKept
  AnsweredOnce
  SwitchesHold
