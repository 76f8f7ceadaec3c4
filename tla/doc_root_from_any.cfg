SPECIFICATION Spec
CONSTANTS
    SlabSize = 2
    SlabsPerChunk = 2
    MaxSlabs = 1
    GenMod = 8
    MarkMod = 4
    MaxAborts = 0
    MaxObjects = 2
    MaxRoots = 2
    Calls = {"try_from_any"}
PROPERTIES
    ReachableStaysLoadable
