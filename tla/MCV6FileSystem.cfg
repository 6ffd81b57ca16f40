CONSTANTS
    SectorSize = 4
    InodeSize = 2
    PtrSize = 1
    DirentSize = 1
    Slots = 3
    NumInodeBlocks = 2
    Half = 16
    MaxName = 2
    Names <- MCNames
    Sizes = {0, 1, 4, 12, 13, 16, 17, 32}
    HugeSizes = {33, 48, 49, 96}
    Zero = Zero
SPECIFICATION Spec
CHECK_DEADLOCK FALSE
INVARIANTS
    ReadsBack
    PathsResolve
