CONSTANTS
    g = g
    a1 = a1
    a2 = a2
    b1 = b1
    NoBlock = NoBlock
    Genesis = g
    Blocks <- ForkBlocks
    Parent <- ForkParent
    Ancestors <- ForkAncestors
    ChainWork <- ForkWork
    Invalid = {a2}
    MaxFile = 1
    MaxCrashes = 2
    MaxInvalidate = 1
SPECIFICATION Spec
CHECK_DEADLOCK FALSE
INVARIANTS CoinsIndexed FilesOnDisk CandidateAtStart
