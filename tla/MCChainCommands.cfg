CONSTANTS
    g = g
    a1 = a1
    a2 = a2
    a3 = a3
    b1 = b1
    b2 = b2
    b3 = b3
    t1 = t1
    t2 = t2
    NoBlock = NoBlock
    Genesis = g
    Blocks <- BushBlocks
    Parent <- BushParent
    Ancestors <- BushAncestors
    ChainWork <- BushWork
    BadContext = {}
    Invalid = {}
    Damaged = {b1}
    Threads = {t1, t2}
    MaxInvalidate = 1
    MaxReconsider = 1
    MaxAborts = 1
SPECIFICATION Spec
SYMMETRY ThreadSymmetry
INVARIANTS ActiveChainSound CandidateLeft CheckBlockIndex CoinsFollowTip
