\* A snapshot at the last tick, a provider call in the one before it; three
\* requests start, pause and advance, or start, change and stop the source.
SPECIFICATION FairSpec
CONSTANTS
  EndTick = 2
  SnapshotInterval = 2
  CallTicks = {2}
  Outcomes = {"same", "hidden", "visible"}
  MaxCommands = 3
  MaxFaults = 1
INVARIANTS RecordIsTrue ExactReplay
PROPERTIES StepsAccepted ReplayEnds
\* a replay that is over, of a source out of requests, does nothing more
CHECK_DEADLOCK FALSE
