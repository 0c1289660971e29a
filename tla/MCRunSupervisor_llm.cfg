\* A run with a provider: the awaited batches journal usage and may pause the
\* run; two-tick advances keep the loop over a pass without a batch.
SPECIFICATION Spec
CONSTANTS
  EndTick = 2
  SnapshotInterval = 2
  MaxSyncAdvance = 2
  AsyncChunk = 1
  Provider = TRUE
  ExportIds = {}
  MaxLog = 10
INVARIANTS
  RunSound
  IdCheckpoint
  StatusFollowsJournal
PROPERTIES
  LifecycleSpec
