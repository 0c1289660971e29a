\* A run without provider: several ticks in one pass, advance tasks of two
\* chunks, exports, snapshots at every second tick.
SPECIFICATION FairSpec
CONSTANTS
  EndTick = 3
  SnapshotInterval = 2
  MaxSyncAdvance = 1
  AsyncChunk = 2
  Provider = FALSE
  ExportIds = {e1}
  MaxLog = 7
INVARIANTS
  RowsAgree
  ExportFaithful
PROPERTIES
  TablesAccept
  RunSettles
  TimersSettle
