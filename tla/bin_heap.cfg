SPECIFICATION Spec
CONSTANTS
    SlabSize = 2
    SlabsPerChunk = 2
    MaxSlabs = 2
    GenMod = 4
    MarkMod = 4
    MaxAborts = 1
    MaxObjects = 3
    MaxRoots = 2
    Calls = {}
INVARIANTS
    TypeOK
    LoadIsExact
    RootPointsToItsValue
    FreeListSound
    LastAllocatedCovers
PROPERTIES
    ImplementsHeap
    ReachableStaysLoadable
