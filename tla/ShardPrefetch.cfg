\* Any layout of three shards, and the layouts of five in the order of the index.
CONSTANTS
    NumShards = 5
    NumUnits = 4
    UnitKeys = 2
    Chunks = 2
    Depth = 2
    FreeShards = 3
SPECIFICATION Spec
INVARIANTS CleanAtEnd OneInFlight CacheBound
PROPERTIES StreamsOnlyCold CacheIsOwed
