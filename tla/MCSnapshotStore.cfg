\* Two ticks, so that a snapshot has a successor, and room for concurrent work.
SPECIFICATION StoreSpec
CONSTANTS
  MaxTick = 1
  MaxSeq = 5
INVARIANTS
  SnapshotsSound
PROPERTIES
  ImplementsCatalog
