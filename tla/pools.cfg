SPECIFICATION FairSpec
CONSTANTS
    Threads = {t1, t2}
    LocalPools = {}
    Kept = {t1}
    Callers = {t1}
    MaxValues = 2
    ChannelCap = 7
    Calls = {}
INVARIANTS
    TypeOK
    ReachableStays
    OnlyUnreceivedPoolsAreUnknown
    CommandsAreExpected
    ActivePoolsCounted
PROPERTY ThreadStorageIsCleanedUp
