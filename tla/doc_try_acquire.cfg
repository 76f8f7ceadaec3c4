SPECIFICATION Spec
CONSTANTS
    Threads = {t1, t2}
    MaxDepth = 2
    MaxRequests = 1
    ChannelCap = 8
    Calls = {"acquire", "collect", "try_acquire"}
INVARIANT GuardExcludesCollector
