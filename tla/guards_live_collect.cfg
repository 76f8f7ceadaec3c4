SPECIFICATION FairSpec
CONSTANTS
    Threads = {t1, t2}
    MaxDepth = 1
    MaxRequests = 2
    ChannelCap = 8
    Calls = {"acquire", "collect", "guard_collect", "try_acquire", "root_in_value"}
PROPERTY CollectReturns
