SPECIFICATION Spec
CONSTANTS
    Threads = {t1, t2}
    MaxDepth = 2
    MaxRequests = 2
    ChannelCap = 8
    Calls = {"acquire", "allocating_in", "while_unlocked", "yield", "collect", "guard_collect", "drop_root", "root_in_value"}
SYMMETRY ThreadSymmetry
INVARIANT TypeOK
INVARIANT GuardExcludesCollector
INVARIANT ReadersCounted
INVARIANT CollectorWillWake
INVARIANT WaiterWillBeNotified
INVARIANT RequestIsServed
INVARIANT SignalStandsForWork
PROPERTY ImplementsGate
