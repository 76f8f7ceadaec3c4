SPECIFICATION Spec
CONSTANTS
    Threads = {t1, t2, t3}
    MaxValues = 3
    MaxHandles = 3
    Calls = {"root", "ref", "upgrade"}
SYMMETRY ThreadSymmetry
INVARIANTS
    TypeOK
    OneAllocation
    RootsAccounted
    NestingIsBounded
