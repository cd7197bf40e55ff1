SPECIFICATION Spec
CONSTANTS
    NBlocks = 2
    FullPackets = 2
    LastPackets = 1
    MaxCachePackets = 1
    PrefetchAhead = 1
    MaxReads = 2
    MaxChanges = 1
    MaxErrors = 1
INVARIANTS TypeOK CacheCoherent PinnedNotEvicted ReadsHeldOnce CountsCover StaleOnlyIfRaced
PROPERTY ReadsAnswered
CHECK_DEADLOCK FALSE
