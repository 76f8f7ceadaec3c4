SPECIFICATION Spec
CONSTANTS
    SlabSize = 1
    SlabsPerChunk = 1
    MaxSlabs = 2
    GenMod = 8
    MarkMod = 4
    MaxAborts = 0
    MaxObjects = 2
    MaxRoots = 1
    Calls = {}
PROPERTIES
    ReachableStaysLoadable
