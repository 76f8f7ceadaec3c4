SPECIFICATION FairSpec
CONSTANTS
    n1 = n1
    n2 = n2
    leaf = leaf
    Objects <- MCObjects
    NumBins <- MCNumBins
    BinOf <- MCBinOf
    Slots <- MCSlots
    ValuesOf <- MCValuesOf
    MayContain <- MCMayContain
    Tracers = {t1, t2}
    TraceCap = 1
    MarkCap = 1
PROPERTIES
    MarkingEnds
CHECK_DEADLOCK FALSE
