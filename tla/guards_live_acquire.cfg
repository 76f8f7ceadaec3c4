SPECIFICATION FairSpec
CONSTANTS
    Threads = {t1, t2}
    MaxDepth = 2
    MaxRequests = 0
    ChannelCap = 8
    Calls = {"acquire", "drop_root", "root_in_value"}
PROPERTY AcquireReturns
PROPERTY RequestLeadsToCollection
