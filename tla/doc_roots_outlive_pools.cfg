SPECIFICATION Spec
CONSTANTS
    Threads = {t1, t2}
    LocalPools = {l}
    Kept = {}
    Callers = {}
    MaxValues = 2
    ChannelCap = 7
    Calls = {}
INVARIANT ReachableStays
