CONSTANTS
    NPreg = 7
    NArch = 1
    MaxBack = 1
    None = None
SPECIFICATION Spec
INVARIANTS OffersDistinct WfAllocIsOffered DrainedFills
PROPERTIES PoolSafety
